---- MODULE Spec2Model ----
(***************************************************************************)
(* Model of the Garmin activity synchronisation engine                     *)
(* (scripts/sync_garmin.py): normalisation, duration enrichment, the       *)
(* recent-window pass, the resumable backfill cursor, the account guard,   *)
(* the raw store writer and the deletion pruner.                           *)
(*                                                                         *)
(* Encodings.  An optional value (Python None / a missing file) is the     *)
(* empty tuple, a present value v is <<v>>.  An activity id n > 0 stands   *)
(* for the string "n"; an id n < 0 stands for a string holding a path      *)
(* separator or "..", such as "../n"; the id 0 stands for a blank string;  *)
(* the id MaxItems + n stands for "n" with surrounding white space.        *)
(* A start time t >= 0 stands for an ISO string of epoch time t, -1 for a  *)
(* present string that datetime.fromisoformat rejects.                     *)
(***************************************************************************)
EXTENDS Integers, Sequences, FiniteSets, TLC

\* ---------------------------------------------------------------- bounds
MaxItems == 2        \* length of the provider's listing
MaxPerPage == 2      \* sync.per_page ranges over 1..MaxPerPage
MaxRuns == 2         \* invocations per behaviour, and one terminated one
MaxCands == 2        \* duration candidates of a payload in SpecPick

\* -------------------------------------------------------------- optionals
None == <<>>
Some(v) == <<v>>
IsSome(o) == o # <<>>
Get(o) == o[1]

Min2(a, b) == IF a <= b THEN a ELSE b
Max2(a, b) == IF a >= b THEN a ELSE b

\* ----------------------------------------------------- duration candidates
\* A candidate value of a payload field: absent/empty ("none"), a value
\* float() rejects with TypeError or ValueError ("text"), a number ("num"),
\* or an integer beyond the range of a float, on which float() raises
\* OverflowError ("huge").
NoCand == [kind |-> "none", val |-> 0]
TextCand == [kind |-> "text", val |-> 0]
Num(n) == [kind |-> "num", val |-> n]
Huge == [kind |-> "huge", val |-> 0]

RECURSIVE FirstNumeric(_)
FirstNumeric(values) ==
  IF values = <<>> THEN None
  ELSE IF Head(values).kind = "num" THEN Some(Head(values).val)
  ELSE FirstNumeric(Tail(values))

RECURSIVE FirstPositive(_)
FirstPositive(values) ==
  IF values = <<>> THEN None
  ELSE IF Head(values).kind = "num" /\ Head(values).val > 0
       THEN Some(Head(values).val)
  ELSE FirstPositive(Tail(values))

\* _pick_duration_seconds raises: the loop reaches a candidate float()
\* overflows on (the except clause names TypeError and ValueError only)
\* before it returns at a positive number.
RECURSIVE PickDurationRaises(_)
PickDurationRaises(values) ==
  IF values = <<>> THEN FALSE
  ELSE IF Head(values).kind = "huge" THEN TRUE
  ELSE IF Head(values).kind = "num" /\ Head(values).val > 0 THEN FALSE
  ELSE PickDurationRaises(Tail(values))

\* _pick_duration_seconds, when it returns: the first positive number, else
\* the first number, else 0.
PickDurationSeconds(values) ==
  IF IsSome(FirstPositive(values)) THEN Get(FirstPositive(values))
  ELSE IF IsSome(FirstNumeric(values)) THEN Get(FirstNumeric(values))
  ELSE 0

\* ------------------------------------------------------------ normalisation
\* A variant of _normalize_activity that keeps an item with no start time,
\* as a record whose start date is not a date.
NormalizeActivityUndated(raw) ==
  IF ~IsSome(raw.activityId) THEN None
  ELSE Some([id |-> Get(raw.activityId),
             start_date |-> IF IsSome(raw.startTime) THEN Get(raw.startTime)
                            ELSE 0 - 1,
             moving_time |-> PickDurationSeconds(raw.durs)])

\* A raw listing item: [activityId, startTime, durs, detail].  detail is the
\* duration the provider's detail endpoint holds for the activity.
\* _normalize_activity: no id or no start time gives no record.
NormalizeActivity(raw) ==
  IF ~IsSome(raw.activityId) THEN None
  ELSE IF ~IsSome(raw.startTime) THEN None
  ELSE Some([id |-> Get(raw.activityId),
             start_date |-> Get(raw.startTime),
             moving_time |-> PickDurationSeconds(raw.durs)])

\* _normalize_activity raises: the item has an id and a start time, and
\* _pick_duration_seconds raises on its candidates.
NormalizeRaises(raw) ==
  IsSome(raw.activityId) /\ IsSome(raw.startTime)
    /\ PickDurationRaises(raw.durs)

\* _activity_start_ts: None when the string is not an ISO date.
ActivityStartTs(activity) ==
  IF activity.start_date < 0 THEN None ELSE Some(activity.start_date)

\* ------------------------------------------------------------- enrichment
\* The result of one detail method variant: the method is missing, raises,
\* returns something that is no dict, or returns a dict with candidates.
VMissing == [kind |-> "missing", durs |-> <<>>]
VRaise == [kind |-> "raise", durs |-> <<>>]
VNonDict == [kind |-> "nondict", durs |-> <<>>]
VDict(durs) == [kind |-> "dict", durs |-> durs]

\* _fetch_activity_duration_from_summary over the four variants' results.
RECURSIVE FetchActivityDurationFromSummary(_)
FetchActivityDurationFromSummary(variants) ==
  IF variants = <<>> THEN None
  ELSE IF Head(variants).kind = "dict"
          /\ PickDurationSeconds(Head(variants).durs) > 0
       THEN Some(PickDurationSeconds(Head(variants).durs))
  ELSE FetchActivityDurationFromSummary(Tail(variants))

\* str(id).strip(): white space around an id is dropped.
StripId(id) == IF id > MaxItems THEN id - MaxItems ELSE id

\* What the client's four detail variants do for a listing item: when the
\* detail endpoint is down for it every variant raises, otherwise they do
\* what the item says (variants), or the first returns the detail payload.
ClientDetail(raw, down) ==
  IF StripId(Get(raw.activityId)) \in down
  THEN <<VRaise, VRaise, VRaise, VRaise>>
  ELSE IF "variants" \in DOMAIN raw THEN raw.variants
  ELSE <<VDict(<<Num(raw.detail)>>), VMissing, VMissing, VMissing>>

\* A variant of _enrich_missing_duration that asks the detail endpoint
\* whatever the listed duration is.
EnrichMissingDurationAlways(activity, variants) ==
  IF StripId(activity.id) = 0
  THEN [activity |-> activity, looked |-> FALSE, enriched |-> FALSE]
  ELSE LET resolved == FetchActivityDurationFromSummary(variants) IN
       IF ~IsSome(resolved) \/ Get(resolved) <= 0
       THEN [activity |-> activity, looked |-> TRUE, enriched |-> FALSE]
       ELSE [activity |-> [activity EXCEPT !.moving_time = Get(resolved)],
             looked |-> TRUE, enriched |-> TRUE]

\* _enrich_missing_duration: [activity, looked, enriched].
EnrichMissingDuration(activity, variants) ==
  IF activity.moving_time > 0
  THEN [activity |-> activity, looked |-> FALSE, enriched |-> FALSE]
  ELSE IF StripId(activity.id) = 0
  THEN [activity |-> activity, looked |-> FALSE, enriched |-> FALSE]
  ELSE LET resolved == FetchActivityDurationFromSummary(variants) IN
       IF ~IsSome(resolved) \/ Get(resolved) <= 0
       THEN [activity |-> activity, looked |-> TRUE, enriched |-> FALSE]
       ELSE [activity |-> [activity EXCEPT !.moving_time = Get(resolved)],
             looked |-> TRUE, enriched |-> TRUE]

\* _fetch_activity_duration_from_summary raises: _pick_duration_seconds,
\* called outside the try block, raises on the payload of a variant that is
\* reached.
RECURSIVE FetchActivityDurationRaises(_)
FetchActivityDurationRaises(variants) ==
  IF variants = <<>> THEN FALSE
  ELSE IF Head(variants).kind # "dict"
  THEN FetchActivityDurationRaises(Tail(variants))
  ELSE IF PickDurationRaises(Head(variants).durs) THEN TRUE
  ELSE IF PickDurationSeconds(Head(variants).durs) > 0 THEN FALSE
  ELSE FetchActivityDurationRaises(Tail(variants))

\* _enrich_missing_duration raises.
EnrichRaises(activity, variants) ==
  /\ ~(activity.moving_time > 0)
  /\ StripId(activity.id) # 0
  /\ FetchActivityDurationRaises(variants)

\* --------------------------------------------------------------- raw store
\* The raw store maps a file name (a stripped id) to the stored record, or
\* to None.  The names n <= 0 are the ones _write_activity refuses.
StoreIds == (0 - MaxItems)..MaxItems
EmptyStore == [i \in StoreIds |-> None]

\* A variant of _write_activity that does not compare with the stored
\* record and rewrites the file every time.
WriteActivityAlways(store, activity) ==
  IF StripId(activity.id) <= 0 THEN [store |-> store, written |-> FALSE]
  ELSE [store |-> [store EXCEPT ![StripId(activity.id)] = Some(activity)],
        written |-> TRUE]

\* A variant of _write_activity that never replaces a stored record.
WriteActivityKeepsFirst(store, activity) ==
  LET activity_id == StripId(activity.id) IN
  IF activity_id <= 0 THEN [store |-> store, written |-> FALSE]
  ELSE IF IsSome(store[activity_id])
  THEN [store |-> store, written |-> FALSE]
  ELSE [store |-> [store EXCEPT ![activity_id] = Some(activity)],
        written |-> TRUE]

\* A variant of _write_activity that does not look at the id.
WriteActivityAnyId(store, activity) ==
  LET activity_id == StripId(activity.id) IN
  IF store[activity_id] = Some(activity)
  THEN [store |-> store, written |-> FALSE]
  ELSE [store |-> [store EXCEPT ![activity_id] = Some(activity)],
        written |-> TRUE]

\* _write_activity: [store, written].
WriteActivity(store, activity) ==
  LET activity_id == StripId(activity.id) IN
  IF activity_id = 0 THEN [store |-> store, written |-> FALSE]
  ELSE IF activity_id < 0 THEN [store |-> store, written |-> FALSE]
  ELSE IF store[activity_id] = Some(activity)
  THEN [store |-> store, written |-> FALSE]
  ELSE [store |-> [store EXCEPT ![activity_id] = Some(activity)],
        written |-> TRUE]

\* ------------------------------------------------------------ page scanning
\* The accumulators of a paging loop.
NewAcc(store) ==
  [total |-> 0, new_or_updated |-> 0, ids |-> {}, min_ts |-> None,
   max_ts |-> None, boundary |-> FALSE, store |-> store, enriched |-> 0,
   looked |-> {}]

\* The body of the loops over a page's items (the same in both passes).
ScanItem(raw, after, dry_run, down, acc) ==
  LET norm == NormalizeActivity(raw) IN
  IF ~IsSome(norm) THEN acc
  ELSE
    LET e == EnrichMissingDuration(Get(norm), ClientDetail(raw, down))
        activity == e.activity
        ts == ActivityStartTs(activity)
        acc1 == [acc EXCEPT
                   !.enriched = @ + (IF e.enriched THEN 1 ELSE 0),
                   !.looked = IF e.looked THEN @ \cup {activity.id} ELSE @]
    IN
    IF IsSome(ts) /\ Get(ts) < after
    THEN [acc1 EXCEPT !.boundary = TRUE]
    ELSE
      LET w == IF dry_run THEN [store |-> acc1.store, written |-> FALSE]
               ELSE WriteActivity(acc1.store, activity)
      IN [acc1 EXCEPT
            !.total = @ + 1,
            !.ids = @ \cup {activity.id},
            !.min_ts = IF ~IsSome(ts) THEN @
                       ELSE IF ~IsSome(@) THEN ts
                       ELSE Some(Min2(Get(@), Get(ts))),
            !.max_ts = IF ~IsSome(ts) THEN @
                       ELSE IF ~IsSome(@) THEN ts
                       ELSE Some(Max2(Get(@), Get(ts))),
            !.store = w.store,
            !.new_or_updated = @ + (IF w.written THEN 1 ELSE 0)]

\* A variant of the loop over a page that leaves the page at the first
\* item older than the bound.
RECURSIVE ScanPageBreaks(_, _, _, _, _)
ScanPageBreaks(items, after, dry_run, down, acc) ==
  IF items = <<>> THEN acc
  ELSE LET acc1 == ScanItem(Head(items), after, dry_run, down, acc) IN
       IF acc1.boundary THEN acc1
       ELSE ScanPageBreaks(Tail(items), after, dry_run, down, acc1)

\* The body of the loop raises on the item: in _normalize_activity or in
\* _enrich_missing_duration.
ItemRaises(raw, down) ==
  \/ NormalizeRaises(raw)
  \/ /\ IsSome(NormalizeActivity(raw))
     /\ EnrichRaises(Get(NormalizeActivity(raw)), ClientDetail(raw, down))

\* The loop over the items of a page, when no item raises.
RECURSIVE ScanPage(_, _, _, _, _)
ScanPage(items, after, dry_run, down, acc) ==
  IF items = <<>> THEN acc
  ELSE ScanPage(Tail(items), after, dry_run, down,
                ScanItem(Head(items), after, dry_run, down, acc))

\* _fetch_page on success: the listing's slice [start, start + limit).
FetchPage(listing, start, limit) ==
  SubSeq(listing, start + 1, Min2(start + limit, Len(listing)))

\* An adapter failure: the exception's class name and what its text holds.
\* _fetch_page wraps every failure in a RuntimeError that quotes the text.
\* _is_rate_limited_error: class name has "toomanyrequests", or the text
\* has "429" or "rate limit".
IsRateLimitedError(exc) ==
  exc.name_toomanyrequests \/ exc.text_429 \/ exc.text_rate_limit


\* The failures an adapter listing call can end with.
ListingErrors ==
  { [name_toomanyrequests |-> n, text_429 |-> a, text_rate_limit |-> b,
     text_too_many_requests |-> c] :
      <<n, a, b, c>> \in { <<FALSE, TRUE, FALSE, TRUE>>,
                           <<FALSE, FALSE, TRUE, FALSE>>,
                           <<TRUE, FALSE, FALSE, TRUE>>,
                           <<FALSE, FALSE, FALSE, TRUE>>,
                           <<FALSE, FALSE, FALSE, FALSE>> } }

\* The RuntimeError _fetch_page raises: its text quotes the failure's text,
\* its class is RuntimeError whatever the failure's class was.
FetchPageError(exc) == [exc EXCEPT !.name_toomanyrequests = FALSE]

\* ------------------------------------------------------------ configuration
\* _start_after_ts.  The clock counts coarse periods; sync.start_date,
\* sync.lookback_years and sync.recent_days are given in the same periods.
LookbackAfterTs(years, clock) == clock - years

StartAfterTs(cfg, clock) ==
  IF IsSome(cfg.start_date) THEN Get(cfg.start_date)
  ELSE IF ~IsSome(cfg.lookback_years) THEN 0
  ELSE LookbackAfterTs(Get(cfg.lookback_years), clock)

SeqToSet(s) == { s[i] : i \in DOMAIN s }

\* _activity_scope: the sorted, de-duplicated lists are sets; the featured
\* types belong to the scope only when include_all_types is off.
ActivityScope(cfg) ==
  [include_all_types |-> cfg.activities.include_all_types,
   exclude_types |-> SeqToSet(cfg.activities.exclude_types),
   featured_types |-> IF cfg.activities.include_all_types THEN None
                      ELSE Some(SeqToSet(cfg.activities.featured_types))]

\* _account_fingerprint: a keyed hash of the e-mail when there is one and a
\* secret, else a hash of the token store, else none.
AccountFingerprint(cfg) ==
  IF cfg.garmin.email # ""
  THEN LET secret == IF cfg.garmin.password # "" THEN cfg.garmin.password
                     ELSE cfg.garmin.token_store_b64
       IN IF secret = "" THEN None
          ELSE Some(<<"hmac", secret, cfg.garmin.email>>)
  ELSE IF cfg.garmin.token_store_b64 # ""
  THEN Some(<<"sha256", cfg.garmin.token_store_b64, "">>)
  ELSE None

\* ------------------------------------------------------------------- state
VARIABLES
  provider,     \* the provider's activity listing, newest request first
  config,       \* the loaded configuration
  now,          \* the clock
  rawStore,     \* activities/raw/garmin: id -> record
  stateFile,    \* data/backfill_state_garmin.json (the cursor)
  athleteFile,  \* data/athletes_garmin.json (the fingerprint)
  derived,      \* whether derived artifacts (summaries, site data) exist
  pc,           \* per invocation: idle, recent, backfill, finish
  run,          \* per invocation: the locals of sync_garmin
  nruns,        \* invocations started (the first terminated one excepted)
  detailUp,     \* whether the provider's detail endpoint answers
  hist,         \* history: what has happened since the initial state
  sourceState,  \* data/source_state.json (the source marker)
  normalized,   \* whether data/activities_normalized.json exists
  pipeline      \* run_pipeline: where it is, and its dry_run argument

\* The variables run_pipeline.py adds to those of sync_garmin.py.
pipeVars == <<sourceState, normalized, pipeline>>

vars == <<provider, config, now, rawStore, stateFile, athleteFile, derived,
          pc, run, nruns, detailUp, hist, sourceState, normalized, pipeline>>

Procs == DOMAIN pc

\* The accumulators kept between pages (the store itself is rawStore).
Keep(acc) == [acc EXCEPT !.store = EmptyStore]

BlankRun ==
  [outcome |-> "none", dry_run |-> FALSE, prune_deleted |-> FALSE,
   after |-> 0, per_page |-> 1, reset |-> FALSE,
   scope |-> [include_all_types |-> TRUE, exclude_types |-> {},
             featured_types |-> None],
   recent_after |-> 0, r_offset |-> 0, r |-> NewAcc(EmptyStore),
   r_rate_limited |-> FALSE,
   state0 |-> None, state |-> None, skip_backfill |-> FALSE,
   next_offset |-> Some(0), offset |-> 0, b |-> NewAcc(EmptyStore),
   exhausted |-> FALSE, rate_limited |-> FALSE,
   resume_backfill |-> TRUE,
   \* history of the invocation, read by the properties only
   first_request |-> None, pages |-> {}, error |-> None, saved |-> None,
   prev |-> [returned |-> FALSE, rate_limited |-> FALSE, killed |-> FALSE,
             pages |-> {}, fingerprint |-> None],
   env_same |-> FALSE]

\* What is left of an invocation once it has ended: how it ended, what it
\* returned, and the backfill pages it had processed (Finish adds the
\* cursor it saved).
Ended(r, outcome) ==
  [BlankRun EXCEPT !.outcome = outcome, !.dry_run = r.dry_run,
                   !.rate_limited = r.rate_limited,
                   !.pages = IF outcome = "killed" THEN r.pages ELSE {}]

\* ------------------------------------------ variants of the account guard
\* The guard records the new fingerprint and keeps the persisted data.
MaybeResetKeepsData(cfg, store, der, athlete, clock) ==
  LET fingerprint == AccountFingerprint(cfg)
      stored == IF IsSome(athlete) THEN Some(Get(athlete).fingerprint)
                ELSE None
  IN IF ~IsSome(fingerprint) \/ stored = fingerprint
     THEN [reset |-> FALSE, store |-> store, derived |-> der,
           athlete |-> athlete]
     ELSE [reset |-> IsSome(stored) \/ der, store |-> store, derived |-> der,
           athlete |-> Some([fingerprint |-> Get(fingerprint),
                             updated_utc |-> clock, version |-> 1])]

\* The guard resets whenever no fingerprint is stored.
MaybeResetWheneverUnstored(cfg, store, der, athlete, clock) ==
  LET fingerprint == AccountFingerprint(cfg)
      stored == IF IsSome(athlete) THEN Some(Get(athlete).fingerprint)
                ELSE None
  IN IF ~IsSome(fingerprint) \/ stored = fingerprint
     THEN [reset |-> FALSE, store |-> store, derived |-> der,
           athlete |-> athlete]
     ELSE [reset |-> TRUE, store |-> EmptyStore, derived |-> FALSE,
           athlete |-> Some([fingerprint |-> Get(fingerprint),
                             updated_utc |-> clock, version |-> 1])]

\* The guard writes the fingerprint only when none is stored.
MaybeResetWritesOnce(cfg, store, der, athlete, clock) ==
  LET fingerprint == AccountFingerprint(cfg)
      stored == IF IsSome(athlete) THEN Some(Get(athlete).fingerprint)
                ELSE None
      written == Some([fingerprint |-> Get(fingerprint),
                       updated_utc |-> clock, version |-> 1])
  IN IF ~IsSome(fingerprint) \/ stored = fingerprint
     THEN [reset |-> FALSE, store |-> store, derived |-> der,
           athlete |-> athlete]
     ELSE IF IsSome(stored)
     THEN [reset |-> TRUE, store |-> EmptyStore, derived |-> FALSE,
           athlete |-> athlete]
     ELSE [reset |-> der, store |-> IF der THEN EmptyStore ELSE store,
           derived |-> FALSE, athlete |-> written]

\* ----------------------------------------------------------- account guard
\* _has_existing_data / _reset_persisted_data / _maybe_reset_for_new_account:
\* [reset, store, derived, athlete].
MaybeResetForNewAccount(cfg, store, der, athlete, clock) ==
  LET fingerprint == AccountFingerprint(cfg)
      stored == IF IsSome(athlete) THEN Some(Get(athlete).fingerprint)
                ELSE None
      keep == [reset |-> FALSE, store |-> store, derived |-> der,
               athlete |-> athlete]
      written == Some([fingerprint |-> Get(fingerprint),
                       updated_utc |-> clock, version |-> 1])
  IN
  IF ~IsSome(fingerprint) THEN keep
  ELSE IF stored = fingerprint THEN keep
  ELSE IF IsSome(stored) /\ stored # fingerprint
  THEN [reset |-> TRUE, store |-> EmptyStore, derived |-> FALSE,
        athlete |-> written]
  ELSE IF ~IsSome(stored) /\ der
  THEN [reset |-> TRUE, store |-> EmptyStore, derived |-> FALSE,
        athlete |-> written]
  ELSE [keep EXCEPT !.athlete = written]


\* ------------------------------------------- variants of cursor validation
\* The cursor is kept whatever bound it was written for.
LoadCursorAnyBound(persisted, resume_backfill, dry_run, after, scope) ==
  LET state0 == IF resume_backfill /\ ~dry_run THEN persisted ELSE None
      state == IF ~IsSome(state0) THEN None
               ELSE IF Get(state0).activity_scope # scope THEN None
               ELSE state0
      off == IF IsSome(state) THEN Get(state).next_offset ELSE None
  IN [state |-> state,
      skip_backfill |-> IsSome(state) /\ Get(state).completed,
      next_offset |-> IF IsSome(off) THEN Get(off) ELSE 0]

\* The cursor is kept whatever activity scope it was written for.
LoadCursorAnyScope(persisted, resume_backfill, dry_run, after, scope) ==
  LET state0 == IF resume_backfill /\ ~dry_run THEN persisted ELSE None
      state == IF ~IsSome(state0) THEN None
               ELSE IF Get(state0).after # after THEN None
               ELSE state0
      off == IF IsSome(state) THEN Get(state).next_offset ELSE None
  IN [state |-> state,
      skip_backfill |-> IsSome(state) /\ Get(state).completed,
      next_offset |-> IF IsSome(off) THEN Get(off) ELSE 0]

\* The persisted offset is not read: every pass starts at offset 0.
LoadCursorFromZero(persisted, resume_backfill, dry_run, after, scope) ==
  LET state0 == IF resume_backfill /\ ~dry_run THEN persisted ELSE None
      state == IF ~IsSome(state0) THEN None
               ELSE IF Get(state0).after # after THEN None
               ELSE IF Get(state0).activity_scope # scope THEN None
               ELSE state0
  IN [state |-> state,
      skip_backfill |-> IsSome(state) /\ Get(state).completed,
      next_offset |-> 0]

\* A variant of the cursor load that reads the persisted cursor in a dry
\* run too.
LoadCursorInDryRun(persisted, resume_backfill, dry_run, after, scope) ==
  LET state0 == IF resume_backfill THEN persisted ELSE None
      state == IF ~IsSome(state0) THEN None
               ELSE IF Get(state0).after # after THEN None
               ELSE IF Get(state0).activity_scope # scope THEN None
               ELSE state0
      skip == IsSome(state) /\ Get(state).completed
      off == IF IsSome(state) THEN Get(state).next_offset ELSE None
  IN [state |-> state, skip_backfill |-> skip,
      next_offset |-> IF IsSome(off) THEN Get(off) ELSE 0]

\* A variant of the cursor load that never skips the backfill pass.
LoadCursorNeverSkips(persisted, resume_backfill, dry_run, after, scope) ==
  LET state0 == IF resume_backfill /\ ~dry_run THEN persisted ELSE None
      state == IF ~IsSome(state0) THEN None
               ELSE IF Get(state0).after # after THEN None
               ELSE IF Get(state0).activity_scope # scope THEN None
               ELSE state0
      off == IF IsSome(state) THEN Get(state).next_offset ELSE None
  IN [state |-> state, skip_backfill |-> FALSE,
      next_offset |-> IF IsSome(off) THEN Get(off) ELSE 0]

\* ------------------------------------------------------- cursor validation
\* sync_garmin, after the recent pass: load the cursor and decide whether it
\* is valid, where the backfill starts and whether it is skipped.
\* [state, skip_backfill, next_offset].
LoadCursor(persisted, resume_backfill, dry_run, after, scope) ==
  LET state0 == IF resume_backfill /\ ~dry_run THEN persisted ELSE None
      state == IF ~IsSome(state0) THEN None
               ELSE IF Get(state0).after # after THEN None
               ELSE IF Get(state0).activity_scope # scope THEN None
               ELSE state0
      skip == IsSome(state) /\ Get(state).completed
      off == IF IsSome(state) THEN Get(state).next_offset ELSE None
  IN [state |-> state, skip_backfill |-> skip,
      next_offset |-> IF IsSome(off) THEN Get(off) ELSE 0]

\* The end of the recent pass: the locals set up for the backfill pass.
EnterBackfill(r, persisted) ==
  LET c == LoadCursor(persisted, r.resume_backfill, r.dry_run, r.after,
                      r.scope)
  IN [r EXCEPT
        !.state0 = persisted,
        !.state = c.state,
        !.skip_backfill = c.skip_backfill,
        !.next_offset = Some(c.next_offset),
        !.offset = c.next_offset,
        !.rate_limited = r.r_rate_limited,
        !.b = [NewAcc(EmptyStore) EXCEPT !.ids = r.r.ids]]

\* A variant that enters the backfill loop after a rate-limited recent pass.
PcAfterRecentThrottled(r) ==
  IF ~r.skip_backfill THEN "backfill" ELSE "finish"

\* `if not rate_limited and not skip_backfill`: whether the backfill loop
\* is entered.
PcAfterRecent(r) ==
  IF ~r.rate_limited /\ ~r.skip_backfill THEN "backfill" ELSE "finish"

\* --------------------------------------------------------------- the pruner
\* A variant that prunes whether or not it was asked to.
CanPruneDeletedUnasked(r) ==
  /\ ~r.dry_run
  /\ ~r.skip_backfill
  /\ r.exhausted
  /\ ~r.rate_limited

\* can_prune_deleted and the loop over the raw directory: [store, deleted].
CanPruneDeleted(r) ==
  /\ r.prune_deleted
  /\ ~r.dry_run
  /\ ~r.skip_backfill
  /\ r.exhausted
  /\ ~r.rate_limited

PruneDeleted(r, store) ==
  IF CanPruneDeleted(r)
  THEN LET gone == { i \in StoreIds : IsSome(store[i]) /\ i \notin r.b.ids }
       IN [store |-> [i \in StoreIds |-> IF i \in gone THEN None
                                         ELSE store[i]],
           deleted |-> Cardinality(gone)]
  ELSE [store |-> store, deleted |-> 0]

\* ------------------------------------------------------ cursor persistence
\* Variants of `completed`: without the shortcut of a skipped pass, and
\* without regard to how the pass ended.
CompletedIfExhausted(r) == r.exhausted /\ ~r.rate_limited

CompletedAlways(r) == r.exhausted \/ ~r.exhausted

\* A variant of `completed` that takes a rate-limited pass for a finished
\* one.
CompletedWhenRateLimited(r) == IF r.skip_backfill THEN TRUE
                               ELSE r.exhausted \/ r.rate_limited

\* A variant of `completed` that holds whenever the recent pass was not
\* rate limited.
CompletedUnlessRecentThrottled(r) ==
  r.skip_backfill \/ r.exhausted \/ ~r.r_rate_limited

\* completed, as persisted and returned.
Completed(r) == IF r.skip_backfill THEN TRUE
                ELSE r.exhausted /\ ~r.rate_limited

\* A variant of the final next_offset: the offset of the last page
\* processed instead of the offset after it.
FinalNextOffsetLastPage(r) ==
  IF r.skip_backfill \/ (r.exhausted /\ ~r.rate_limited) THEN None
  ELSE IF r.pages = {} THEN r.next_offset
  ELSE Some(CHOOSE o \in r.pages : \A q \in r.pages : q <= o)

\* A variant that does not clear the offset of a completed pass.
FinalNextOffsetKept(r) == r.next_offset
\* A variant of the persisted offset that stays where this run's backfill
\* pass started as long as the backfill is not completed.
FinalNextOffsetUnmoved(r) ==
  IF Completed(r) THEN None
  ELSE IF IsSome(r.first_request) THEN r.first_request
  ELSE r.next_offset

\* next_offset as persisted and returned: cleared when completed.
FinalNextOffset(r) == IF Completed(r) THEN None ELSE r.next_offset

\* A variant of state_update that does not refresh activity_scope.
StateUpdateStaleScope(r, clock) ==
  LET stale == IF IsSome(r.state0) THEN Get(r.state0).activity_scope
               ELSE r.scope
  IN IF r.skip_backfill /\ IsSome(r.state)
     THEN [Get(r.state) EXCEPT
             !.completed = TRUE,
             !.rate_limited = r.rate_limited,
             !.last_run_utc = clock]
     ELSE [after |-> r.after,
           next_offset |-> IF r.exhausted /\ ~r.rate_limited THEN None
                           ELSE r.next_offset,
           completed |-> r.exhausted /\ ~r.rate_limited,
           oldest_seen_ts |-> r.b.min_ts,
           newest_seen_ts |-> r.b.max_ts,
           rate_limited |-> r.rate_limited,
           last_run_utc |-> clock,
           activity_scope |-> stale]

\* A variant of state_update that carries the cursor of a skipped pass
\* forward without refreshing its rate_limited flag.
StateUpdateKeepsFlag(r, clock) ==
  IF r.skip_backfill /\ IsSome(r.state)
  THEN [Get(r.state) EXCEPT
          !.completed = TRUE,
          !.last_run_utc = clock,
          !.activity_scope = r.scope]
  ELSE [after |-> r.after,
        next_offset |-> IF r.exhausted /\ ~r.rate_limited THEN None
                        ELSE r.next_offset,
        completed |-> r.exhausted /\ ~r.rate_limited,
        oldest_seen_ts |-> r.b.min_ts,
        newest_seen_ts |-> r.b.max_ts,
        rate_limited |-> r.rate_limited,
        last_run_utc |-> clock,
        activity_scope |-> r.scope]

\* state_update: the carried-forward cursor of a skipped pass, or a new one;
\* activity_scope is set in both.
StateUpdate(r, clock) ==
  IF r.skip_backfill /\ IsSome(r.state)
  THEN [Get(r.state) EXCEPT
          !.completed = TRUE,
          !.rate_limited = r.rate_limited,
          !.last_run_utc = clock,
          !.activity_scope = r.scope]
  ELSE [after |-> r.after,
        next_offset |-> FinalNextOffset(r),
        completed |-> Completed(r),
        oldest_seen_ts |-> r.b.min_ts,
        newest_seen_ts |-> r.b.max_ts,
        rate_limited |-> r.rate_limited,
        last_run_utc |-> clock,
        activity_scope |-> r.scope]

\* A variant of the summary whose `fetched` counts the backfill pass only.
SummaryBackfillOnly(r, deleted) ==
  [fetched |-> r.b.total,
   new_or_updated |-> r.b.new_or_updated + r.r.new_or_updated,
   deleted |-> deleted,
   lookback_start_ts |-> r.after,
   rate_limited |-> r.rate_limited,
   backfill_completed |-> r.skip_backfill \/ (r.exhausted /\ ~r.rate_limited),
   backfill_next_offset |->
     IF r.skip_backfill \/ (r.exhausted /\ ~r.rate_limited) THEN None
     ELSE r.next_offset,
   duration_enriched |-> r.r.enriched + r.b.enriched,
   recent_sync |-> [fetched |-> r.r.total,
                    new_or_updated |-> r.r.new_or_updated,
                    oldest_ts |-> r.r.min_ts, newest_ts |-> r.r.max_ts,
                    rate_limited |-> r.r_rate_limited,
                    activity_ids |-> r.r.ids]]

Summary(r, deleted) ==
  [fetched |-> r.b.total + r.r.total,
   new_or_updated |-> r.b.new_or_updated + r.r.new_or_updated,
   deleted |-> deleted,
   lookback_start_ts |-> r.after,
   rate_limited |-> r.rate_limited,
   backfill_completed |-> Completed(r),
   backfill_next_offset |-> FinalNextOffset(r),
   duration_enriched |-> r.r.enriched + r.b.enriched,
   recent_sync |-> [fetched |-> r.r.total,
                    new_or_updated |-> r.r.new_or_updated,
                    oldest_ts |-> r.r.min_ts, newest_ts |-> r.r.max_ts,
                    rate_limited |-> r.r_rate_limited,
                    activity_ids |-> r.r.ids]]


\* ------------------------------------------------------------------ actions
\* The detail endpoint fails for every id while it is down.
Down == IF detailUp THEN {} ELSE StoreIds

SetRun(p, r) == run' = [run EXCEPT ![p] = r]
SetPc(p, l) == pc' = [pc EXCEPT ![p] = l]

\* sync_garmin up to the first listing request: load the configuration,
\* compute the bound and the scope, run the account guard (not in a dry
\* run) and set up the recent pass (_sync_recent returns at once when
\* recent_days <= 0).
BeginRun(p, dry_run, prune_deleted) ==
  /\ pc[p] = "idle"
  /\ LET g == IF dry_run
              THEN [reset |-> FALSE, store |-> rawStore, derived |-> derived,
                    athlete |-> athleteFile]
              ELSE MaybeResetForNewAccount(config, rawStore, derived,
                                           athleteFile, now)
         r0 == [BlankRun EXCEPT
                  !.outcome = "running",
                  !.dry_run = dry_run,
                  !.prune_deleted = prune_deleted,
                  !.after = StartAfterTs(config, now),
                  !.scope = ActivityScope(config),
                  !.per_page = config.per_page,
                  !.resume_backfill = config.resume_backfill,
                  !.reset = g.reset,
                  !.recent_after = now - config.recent_days,
                  !.prev = [returned |-> run[p].outcome = "summary"
                                           /\ ~run[p].dry_run,
                            rate_limited |-> run[p].rate_limited,
                            killed |-> run[p].outcome = "killed",
                            pages |-> run[p].pages,
                            fingerprint |->
                              IF IsSome(athleteFile)
                              THEN Some(Get(athleteFile).fingerprint)
                              ELSE None],
                  !.env_same = ~hist.changed]
     IN /\ rawStore' = g.store
        /\ derived' = g.derived
        /\ normalized' = (normalized /\ ~g.reset)
        /\ athleteFile' = g.athlete
        /\ IF config.recent_days <= 0
           THEN LET r1 == EnterBackfill(r0, stateFile) IN
                SetRun(p, r1) /\ SetPc(p, PcAfterRecent(r1))
           ELSE SetRun(p, r0) /\ SetPc(p, "recent")
  /\ hist' = [hist EXCEPT !.changed = FALSE]
  /\ UNCHANGED <<provider, config, now, stateFile, detailUp, sourceState,
                 pipeline>>

\* One invocation of sync_garmin, counted against the bound on the number
\* of runs of a behaviour.
StartRun(p, dry_run, prune_deleted) ==
  /\ nruns < MaxRuns
  /\ BeginRun(p, dry_run, prune_deleted)
  /\ nruns' = nruns + 1

\* Some item of the page makes the body of the loop raise.
PageRaises(page) == \E k \in 1..Len(page) : ItemRaises(page[k], Down)

\* One iteration of a paging loop whose listing request succeeds and whose
\* k-th item makes the body raise: the items before it are handled, the
\* exception leaves sync_garmin, nothing more is written.
ItemFails(p) ==
  /\ pc[p] \in {"recent", "backfill"}
  /\ LET r == run[p]
         recent == pc[p] = "recent"
         page == FetchPage(provider, IF recent THEN r.r_offset ELSE r.offset,
                           r.per_page)
     IN \E k \in 1..Len(page) :
          /\ ItemRaises(page[k], Down)
          /\ \A i \in 1..(k - 1) : ~ItemRaises(page[i], Down)
          /\ LET acc == ScanPage(SubSeq(page, 1, k - 1),
                                 IF recent THEN r.recent_after ELSE r.after,
                                 r.dry_run, Down,
                                 [NewAcc(rawStore) EXCEPT !.ids = {}])
             IN rawStore' = acc.store
  /\ SetRun(p, Ended(run[p], "raised"))
  /\ SetPc(p, "idle")
  /\ UNCHANGED <<provider, config, now, stateFile, athleteFile, derived,
                 nruns, detailUp, hist>>
  /\ UNCHANGED pipeVars

\* A variant of the loop of _sync_recent that goes on to the next page
\* after a full page whatever the timestamps of its items.
RecentPageIgnoresBoundary(p) ==
  /\ pc[p] = "recent"
  /\ LET r == run[p]
         page == FetchPage(provider, r.r_offset, r.per_page)
         acc == ScanPage(page, r.recent_after, r.dry_run, Down,
                         [r.r EXCEPT !.store = rawStore, !.boundary = FALSE])
         rq == r
     IN IF page = <<>>
        THEN LET r1 == EnterBackfill(rq, stateFile) IN
             /\ SetRun(p, r1) /\ SetPc(p, PcAfterRecent(r1))
             /\ UNCHANGED rawStore
        ELSE /\ rawStore' = acc.store
             /\ IF Len(page) < r.per_page
                THEN LET r1 == EnterBackfill([rq EXCEPT !.r = Keep(acc)],
                                             stateFile)
                     IN SetRun(p, r1) /\ SetPc(p, PcAfterRecent(r1))
                ELSE /\ SetRun(p, [rq EXCEPT !.r = Keep(acc),
                                             !.r_offset = @ + Len(page)])
                     /\ UNCHANGED pc
  /\ UNCHANGED <<provider, config, now, stateFile, athleteFile, derived,
                 nruns, detailUp, hist>>
  /\ UNCHANGED pipeVars

\* One iteration of _sync_recent's loop whose listing request succeeds.
RecentPage(p) ==
  /\ pc[p] = "recent"
  /\ ~PageRaises(FetchPage(provider, run[p].r_offset, run[p].per_page))
  /\ LET r == run[p]
         page == FetchPage(provider, r.r_offset, r.per_page)
         acc == ScanPage(page, r.recent_after, r.dry_run, Down,
                         [r.r EXCEPT !.store = rawStore, !.boundary = FALSE])
         rq == r
     IN IF page = <<>>
        THEN LET r1 == EnterBackfill(rq, stateFile) IN
             /\ SetRun(p, r1) /\ SetPc(p, PcAfterRecent(r1))
             /\ UNCHANGED rawStore
        ELSE /\ rawStore' = acc.store
             /\ IF acc.boundary \/ Len(page) < r.per_page
                THEN LET r1 == EnterBackfill([rq EXCEPT !.r = Keep(acc)],
                                             stateFile)
                     IN SetRun(p, r1) /\ SetPc(p, PcAfterRecent(r1))
                ELSE /\ SetRun(p, [rq EXCEPT !.r = Keep(acc),
                                             !.r_offset = @ + Len(page)])
                     /\ UNCHANGED pc
  /\ UNCHANGED <<provider, config, now, stateFile, athleteFile, derived,
                 nruns, detailUp, hist>>
  /\ UNCHANGED pipeVars

\* A listing request of the recent pass fails with a rate-limit signal: the
\* pass ends, rate_limited is set.
RecentRateLimited(p) ==
  /\ pc[p] = "recent"
  /\ \E exc \in ListingErrors :
       /\ IsRateLimitedError(FetchPageError(exc))
       /\ LET r == run[p]
              r1 == EnterBackfill(
                      [r EXCEPT !.r_rate_limited = TRUE,
                                !.error = Some(exc)], stateFile)
          IN SetRun(p, r1) /\ SetPc(p, PcAfterRecent(r1))
  /\ UNCHANGED <<provider, config, now, rawStore, stateFile, athleteFile,
                 derived, nruns, detailUp, hist>>
  /\ UNCHANGED pipeVars

\* A variant in which the failing run saves its cursor before the error
\* leaves sync_garmin.
ListingFailsSavesCursor(p) ==
  /\ pc[p] \in {"recent", "backfill"}
  /\ \E exc \in ListingErrors :
       /\ ~IsRateLimitedError(FetchPageError(exc))
       /\ SetRun(p, [Ended(run[p], "raised") EXCEPT !.error = Some(exc)])
  /\ stateFile' = IF run[p].dry_run THEN stateFile
                  ELSE Some(StateUpdate(run[p], now))
  /\ SetPc(p, "idle")
  /\ UNCHANGED <<provider, config, now, rawStore, athleteFile, derived,
                 nruns, detailUp, hist>>
  /\ UNCHANGED pipeVars

\* A listing request (of either pass) fails otherwise: the error leaves
\* sync_garmin.
ListingFails(p) ==
  /\ pc[p] \in {"recent", "backfill"}
  /\ \E exc \in ListingErrors :
       /\ ~IsRateLimitedError(FetchPageError(exc))
       /\ SetRun(p, [Ended(run[p], "raised") EXCEPT !.error = Some(exc)])
  /\ SetPc(p, "idle")
  /\ UNCHANGED <<provider, config, now, rawStore, stateFile, athleteFile,
                 derived, nruns, detailUp, hist>>
  /\ UNCHANGED pipeVars

\* A variant of the backfill loop that asks for a further page after a
\* short page.
BackfillPageIgnoresShortPage(p) ==
  /\ pc[p] = "backfill"
  /\ LET r == run[p]
         page == FetchPage(provider, r.offset, r.per_page)
         acc == ScanPage(page, r.after, r.dry_run, Down,
                         [r.b EXCEPT !.store = rawStore, !.boundary = FALSE])
         rq == [r EXCEPT !.first_request =
                           IF IsSome(@) THEN @ ELSE Some(r.offset),
                         !.pages = @ \cup {r.offset}]
     IN /\ IF page = <<>>
           THEN /\ SetRun(p, [rq EXCEPT !.exhausted = TRUE])
                /\ SetPc(p, "finish")
                /\ UNCHANGED rawStore
           ELSE /\ rawStore' = acc.store
                /\ LET r1 == [rq EXCEPT !.b = Keep(acc),
                                        !.offset = @ + Len(page),
                                        !.next_offset = Some(r.offset + Len(page))]
                   IN IF acc.boundary
                      THEN /\ SetRun(p, [r1 EXCEPT !.exhausted = TRUE])
                           /\ SetPc(p, "finish")
                      ELSE SetRun(p, r1) /\ UNCHANGED pc
        /\ hist' = IF r.dry_run THEN hist
                   ELSE [hist EXCEPT !.processed = @ \cup {r.offset}]
  /\ UNCHANGED <<provider, config, now, stateFile, athleteFile, derived,
                 nruns, detailUp>>
  /\ UNCHANGED pipeVars

\* One iteration of the backfill loop whose listing request succeeds.
BackfillPage(p) ==
  /\ pc[p] = "backfill"
  /\ ~PageRaises(FetchPage(provider, run[p].offset, run[p].per_page))
  /\ LET r == run[p]
         page == FetchPage(provider, r.offset, r.per_page)
         acc == ScanPage(page, r.after, r.dry_run, Down,
                         [r.b EXCEPT !.store = rawStore, !.boundary = FALSE])
         rq == [r EXCEPT !.first_request =
                           IF IsSome(@) THEN @ ELSE Some(r.offset),
                         !.pages = @ \cup {r.offset}]
     IN /\ IF page = <<>>
           THEN /\ SetRun(p, [rq EXCEPT !.exhausted = TRUE])
                /\ SetPc(p, "finish")
                /\ UNCHANGED rawStore
           ELSE /\ rawStore' = acc.store
                /\ LET r1 == [rq EXCEPT !.b = Keep(acc),
                                        !.offset = @ + Len(page),
                                        !.next_offset = Some(r.offset + Len(page))]
                   IN IF acc.boundary \/ Len(page) < r.per_page
                      THEN /\ SetRun(p, [r1 EXCEPT !.exhausted = TRUE])
                           /\ SetPc(p, "finish")
                      ELSE SetRun(p, r1) /\ UNCHANGED pc
        /\ hist' = IF r.dry_run THEN hist
                   ELSE [hist EXCEPT !.processed = @ \cup {r.offset}]
  /\ UNCHANGED <<provider, config, now, stateFile, athleteFile, derived,
                 nruns, detailUp>>
  /\ UNCHANGED pipeVars

\* A listing request of the backfill pass fails with a rate-limit signal.
BackfillRateLimited(p) ==
  /\ pc[p] = "backfill"
  /\ \E exc \in ListingErrors :
       /\ IsRateLimitedError(FetchPageError(exc))
       /\ LET r == run[p] IN
          SetRun(p, [r EXCEPT !.rate_limited = TRUE,
                              !.error = Some(exc),
                              !.first_request =
                                IF IsSome(@) THEN @ ELSE Some(r.offset)])
  /\ SetPc(p, "finish")
  /\ UNCHANGED <<provider, config, now, rawStore, stateFile, athleteFile,
                 derived, nruns, detailUp, hist>>
  /\ UNCHANGED pipeVars

\* A variant of the end of the run that keeps the persisted cursor when it
\* is completed while the run's own is not.
FinishKeepsCompleted(p) ==
  /\ pc[p] = "finish"
  /\ LET r == run[p]
         pr == PruneDeleted(r, rawStore)
         mine == StateUpdate(r, now)
         kept == IF IsSome(stateFile) /\ Get(stateFile).completed
                    /\ ~mine.completed
                 THEN Get(stateFile) ELSE mine
     IN /\ rawStore' = pr.store
        /\ stateFile' = IF r.dry_run THEN stateFile ELSE Some(kept)
        /\ derived' = IF r.dry_run THEN derived ELSE TRUE
        /\ SetRun(p, [Ended(r, "summary") EXCEPT
                        !.saved = IF r.dry_run THEN None ELSE Some(kept)])
  /\ SetPc(p, "idle")
  /\ UNCHANGED <<provider, config, now, athleteFile, nruns, detailUp, hist>>
  /\ UNCHANGED pipeVars

\* The rest of sync_garmin: prune, persist the cursor (not in a dry run),
\* return the summary.  main then writes the summary files (not in a dry
\* run), which are derived artifacts.
Finish(p) ==
  /\ pc[p] = "finish"
  /\ LET r == run[p]
         pr == PruneDeleted(r, rawStore)
     IN /\ rawStore' = pr.store
        /\ stateFile' = IF r.dry_run THEN stateFile
                        ELSE Some(StateUpdate(r, now))
        /\ derived' = IF r.dry_run THEN derived ELSE TRUE
        /\ SetRun(p, [Ended(r, "summary") EXCEPT
                        !.saved = IF r.dry_run THEN None
                                  ELSE Some(StateUpdate(r, now))])
  /\ SetPc(p, "idle")
  /\ UNCHANGED <<provider, config, now, athleteFile, nruns, detailUp, hist>>
  /\ UNCHANGED pipeVars

\* The process is terminated between two steps: nothing more is written.
\* (The first terminated invocation of a behaviour is not counted in nruns.)
Kill(p) ==
  /\ pc[p] # "idle"
  /\ SetRun(p, Ended(run[p], "killed"))
  /\ SetPc(p, "idle")
  /\ nruns' = IF hist.killed THEN nruns ELSE nruns - 1
  /\ hist' = [hist EXCEPT !.killed = TRUE]
  /\ UNCHANGED <<provider, config, now, rawStore, stateFile, athleteFile,
                 derived, detailUp>>
  /\ UNCHANGED pipeVars

\* The process is terminated inside a page of a paging loop, after the first
\* k items of the page were handled: their records are written, the offset
\* is not advanced.
KillInPage(p) ==
  /\ pc[p] \in {"recent", "backfill"}
  /\ LET r == run[p]
         recent == pc[p] = "recent"
         page == FetchPage(provider, IF recent THEN r.r_offset ELSE r.offset,
                           r.per_page)
     IN \E k \in 1..Len(page) :
          LET acc == ScanPage(SubSeq(page, 1, k),
                              IF recent THEN r.recent_after ELSE r.after,
                              r.dry_run, Down,
                              [NewAcc(rawStore) EXCEPT !.ids = {}])
          IN /\ rawStore' = acc.store
             /\ SetRun(p, Ended(r, "killed"))
  /\ SetPc(p, "idle")
  /\ nruns' = IF hist.killed THEN nruns ELSE nruns - 1
  /\ hist' = [hist EXCEPT !.killed = TRUE]
  /\ UNCHANGED <<provider, config, now, stateFile, athleteFile, derived,
                 detailUp>>
  /\ UNCHANGED pipeVars


\* -------------------------------------------------------------- environment
AllIdle == \A p \in Procs : pc[p] = "idle"

\* The values the model draws the clock, the item times and the configured
\* start date from.
Clock == 3..4
ItemTimes == {1, 3}
StartDates == {None, Some(2)}
RecentDays == 0..1

\* The activities sections of the configuration: the second excludes a type.
Activities ==
  { [include_all_types |-> TRUE, exclude_types |-> <<>>,
     featured_types |-> <<"Run">>],
    [include_all_types |-> TRUE, exclude_types |-> <<"Yoga">>,
     featured_types |-> <<"Run">>] }

Garmin == [email |-> "a@example.org", password |-> "pw",
           token_store_b64 |-> ""]

\* The listing item at position j: a well-formed activity of some time or
\* of a start time that does not parse, or an item with no id.
Payloads(j) ==
  { [activityId |-> Some(j), startTime |-> Some(t), durs |-> <<Num(5)>>,
     detail |-> 5] : t \in ItemTimes \cup {-1} }
  \cup { [activityId |-> None, startTime |-> Some(3), durs |-> <<Num(5)>>,
          detail |-> 5] }

\* A well-formed activity of some time.
PayloadsCfg(j) ==
  { [activityId |-> Some(j), startTime |-> Some(t), durs |-> <<Num(5)>>,
     detail |-> 5] : t \in ItemTimes }

\* An old well-formed activity, or a recent one whose listed duration is
\* zero while the detail endpoint holds its duration.
PayloadsFlap(j) ==
  { [activityId |-> Some(j), startTime |-> Some(1), durs |-> <<Num(5)>>,
     detail |-> 5],
    [activityId |-> Some(j), startTime |-> Some(3),
     durs |-> <<NoCand, Num(0)>>, detail |-> 7] }

\* The listings of at most MaxItems items, the item at position j drawn
\* from P(j): ids are unique within a listing.
ListingsOf(P(_)) ==
  UNION { { s \in [1..n -> UNION { P(j) : j \in 1..n }] :
              \A j \in 1..n : s[j] \in P(j) } : n \in 0..MaxItems }

Listings == ListingsOf(Payloads)

ListingsCfg == ListingsOf(PayloadsCfg)

ListingsFlap == ListingsOf(PayloadsFlap)

\* The configurations with the given start dates, recent windows and
\* resume_backfill settings: any page size, no type excluded.
ConfigsOf(start_dates, recent_days, resumes) ==
  { [start_date |-> sd, lookback_years |-> None, per_page |-> pp,
     recent_days |-> rd, resume_backfill |-> rb,
     activities |-> a, garmin |-> Garmin] :
      sd \in start_dates, pp \in 1..MaxPerPage, rd \in recent_days,
      rb \in resumes,
      a \in { x \in Activities : x.exclude_types = <<>> } }

InitConfigs == ConfigsOf(StartDates, RecentDays, {TRUE})

\* The configuration is edited between two invocations: another start date
\* or another activities section.
ConfigChange ==
  /\ AllIdle
  /\ nruns < MaxRuns
  /\ \E sd \in StartDates, a \in Activities :
       /\ <<sd, a>> # <<config.start_date, config.activities>>
       /\ config' = [config EXCEPT !.start_date = sd, !.activities = a]
  /\ UNCHANGED <<provider, now, rawStore, stateFile, athleteFile, derived,
                 pc, run, nruns, detailUp, hist>>
  /\ UNCHANGED pipeVars

\* The provider's detail endpoint goes down or comes back.
DetailFlap ==
  /\ AllIdle
  /\ nruns < MaxRuns
  /\ detailUp' = ~detailUp
  /\ hist' = [hist EXCEPT !.changed = TRUE]
  /\ UNCHANGED <<provider, config, now, rawStore, stateFile, athleteFile,
                 derived, pc, run, nruns>>
  /\ UNCHANGED pipeVars

\* run_pipeline is not running.
NoPipeline == [pos |-> "idle", dry_run |-> FALSE, started |-> 0]

\* ------------------------------------------------------------ specification
\* A fresh installation: nothing persisted, no invocation running.
InitWith(listings, configs, procs) ==
  /\ provider \in listings
  /\ config \in configs
  /\ now = CHOOSE c \in Clock : \A d \in Clock : c <= d
  /\ rawStore = EmptyStore
  /\ stateFile = None
  /\ athleteFile = None
  /\ derived = FALSE
  /\ pc = [p \in procs |-> "idle"]
  /\ run = [p \in procs |-> BlankRun]
  /\ nruns = 0
  /\ detailUp = TRUE
  /\ hist = [changed |-> FALSE, processed |-> {}, killed |-> FALSE]
  /\ sourceState = None
  /\ normalized = FALSE
  /\ pipeline = NoPipeline

\* Spec: invocations one after another over a stable listing, with an
\* unchanged configuration and a detail endpoint that answers.
Init == InitWith(Listings, InitConfigs, {1})

Next ==
  \/ \E p \in Procs, d \in BOOLEAN, pr \in BOOLEAN : StartRun(p, d, pr)
  \/ \E p \in Procs : RecentPage(p)
  \/ \E p \in Procs : RecentRateLimited(p)
  \/ \E p \in Procs : ListingFails(p)
  \/ \E p \in Procs : BackfillPage(p)
  \/ \E p \in Procs : BackfillRateLimited(p)
  \/ \E p \in Procs : Finish(p)

Spec == Init /\ [][Next]_vars

\* SpecCfg: the same, and the configuration may be edited between two
\* invocations.
InitCfg == InitWith(ListingsCfg, ConfigsOf({None}, {1}, {TRUE}), {1})

NextCfg == Next \/ ConfigChange

SpecCfg == InitCfg /\ [][NextCfg]_vars

\* SpecFlap: the same as Spec over listings that hold activities listed
\* with a zero duration, and the detail endpoint may go down and come back
\* between two invocations; resume_backfill may be disabled.
InitFlap == InitWith(ListingsFlap, ConfigsOf({None}, {1}, BOOLEAN), {1})

NextFlap == Next \/ DetailFlap

SpecFlap == InitFlap /\ [][NextFlap]_vars

\* SpecIds: the same as Spec over listings of recent activities whose ids
\* are plain, padded with white space, unsafe or blank.
PayloadsIds(j) ==
  { [activityId |-> Some(i), startTime |-> Some(3), durs |-> <<Num(5)>>,
     detail |-> 5] : i \in {j, MaxItems + j, 0 - j, 0} }

ListingsIds == ListingsOf(PayloadsIds)

InitIds == InitWith(ListingsIds, ConfigsOf({None}, RecentDays, {TRUE}), {1})

SpecIds == InitIds /\ [][Next]_vars

\* SpecDur: the same as Spec over listings of recent activities with a
\* positive, a zero or a negative listed duration, and of items with no id
\* or no start time.
PayloadsDur(j) ==
  { [activityId |-> Some(j), startTime |-> Some(3), durs |-> d,
     detail |-> 7] : d \in { <<Num(5)>>, <<NoCand, Num(0)>>,
                             <<TextCand, Num(0 - 2)>> } }
  \cup { [activityId |-> None, startTime |-> Some(3), durs |-> <<Num(5)>>,
          detail |-> 7],
         [activityId |-> Some(j), startTime |-> None,
          durs |-> <<NoCand, Num(0)>>, detail |-> 7] }

ListingsDur == ListingsOf(PayloadsDur)

InitDur == InitWith(ListingsDur, ConfigsOf({None}, RecentDays, {TRUE}), {1})

SpecDur == InitDur /\ [][Next]_vars

\* SpecCover: runs that are never asked to prune, over a stable listing
\* and a constant configuration.
InitCover == InitWith(Listings, InitConfigs, {1})

NextCover ==
  \/ \E p \in Procs, d \in BOOLEAN : StartRun(p, d, FALSE)
  \/ \E p \in Procs : RecentPage(p)
  \/ \E p \in Procs : RecentRateLimited(p)
  \/ \E p \in Procs : ListingFails(p)
  \/ \E p \in Procs : BackfillPage(p)
  \/ \E p \in Procs : BackfillRateLimited(p)
  \/ \E p \in Procs : Finish(p)

SpecCover == InitCover /\ [][NextCover]_vars

\* SpecClock: the same as Spec, with a bound configured by sync.start_date
\* or by sync.lookback_years, and a clock that advances between two
\* invocations.
ConfigsClock ==
  { [c EXCEPT !.lookback_years = ly] :
      c \in ConfigsOf(StartDates, {1}, {TRUE}), ly \in {None, Some(1)} }

Tick ==
  /\ AllIdle
  /\ nruns < MaxRuns
  /\ now + 1 \in Clock
  /\ now' = now + 1
  /\ UNCHANGED <<provider, config, rawStore, stateFile, athleteFile,
                 derived, pc, run, nruns, detailUp, hist>>
  /\ UNCHANGED pipeVars

InitClock == InitWith(ListingsCfg, ConfigsClock, {1})

NextClock == Next \/ Tick

SpecClock == InitClock /\ [][NextClock]_vars

\* SpecAcct: the same as Spec, and the garmin section of the configuration
\* may be edited between two invocations.
Accounts ==
  { Garmin,
    [email |-> "b@example.org", password |-> "pw", token_store_b64 |-> ""],
    [email |-> "", password |-> "", token_store_b64 |-> "tok"],
    [email |-> "", password |-> "pw", token_store_b64 |-> ""] }

AccountChange ==
  /\ AllIdle
  /\ nruns < MaxRuns
  /\ \E g \in Accounts :
       /\ g # config.garmin
       /\ config' = [config EXCEPT !.garmin = g]
  /\ UNCHANGED <<provider, now, rawStore, stateFile, athleteFile, derived,
                 pc, run, nruns, detailUp, hist>>
  /\ UNCHANGED pipeVars

InitAcct == InitWith(ListingsCfg, ConfigsOf({None}, {1}, {TRUE}), {1})

NextAcct == Next \/ AccountChange

SpecAcct == InitAcct /\ [][NextAcct]_vars

\* SpecKill: invocations one after another over a stable listing with an
\* unchanged configuration, any of which may be terminated at any point.
InitKill == InitWith(ListingsCfg, ConfigsOf(StartDates, RecentDays, {TRUE}), {1})

NextKill ==
  \/ Next
  \/ \E p \in Procs : Kill(p)
  \/ \E p \in Procs : KillInPage(p)

SpecKill == InitKill /\ [][NextKill]_vars


\* ------------------------------------------------- what the properties read
\* The summary an invocation at pc = "finish" returns.
Returned(p) == Summary(run[p], PruneDeleted(run[p], rawStore).deleted)

\* The step in which invocation p returns its summary.
Returns(p) ==
  pc[p] = "finish" /\ pc'[p] = "idle" /\ run'[p].outcome = "summary"

\* Whether a listing item yields a record that is in-bound for `after`.
WellFormed(raw) == IsSome(raw.activityId) /\ IsSome(raw.startTime)
OutOfBound(raw, after) ==
  WellFormed(raw) /\ Get(raw.startTime) >= 0 /\ Get(raw.startTime) < after
InBound(raw, after) == WellFormed(raw) /\ ~OutOfBound(raw, after)

\* The positions of the listing a page request at offset o covers.
Covered(listing, o, per_page) ==
  { j \in 1..Len(listing) : o < j /\ j <= o + per_page }

\* The offset of the page at which a pass over the listing from offset o
\* stops: the first page that is empty, short, or holds an out-of-bound item.
RECURSIVE StopOffset(_, _, _, _)
StopOffset(listing, after, per_page, o) ==
  LET c == Covered(listing, o, per_page) IN
  IF Cardinality(c) < per_page \/ \E j \in c : OutOfBound(listing[j], after)
  THEN o
  ELSE StopOffset(listing, after, per_page, o + per_page)

\* The page offsets an uninterrupted pass from offset 0 requests.
FullPassOffsets(listing, after, per_page) ==
  { o \in 0..StopOffset(listing, after, per_page, 0) : o % per_page = 0 }

\* The persisted cursor an invocation loaded is one it resumes from: same
\* bound, same scope, not completed, in a run that reads the cursor.
Resumable(r) ==
  /\ ~r.dry_run
  /\ r.resume_backfill
  /\ IsSome(r.state0)
  /\ Get(r.state0).after = r.after
  /\ Get(r.state0).activity_scope = r.scope
  /\ ~Get(r.state0).completed
  /\ IsSome(Get(r.state0).next_offset)

\* The offset the backfill pass of the invocation has to start from.
StartOffsetOf(r) ==
  IF Resumable(r) THEN Get(Get(r.state0).next_offset) ELSE 0

MaxOf(S) == CHOOSE x \in S : \A y \in S : y <= x

\* The offset reached after the last page the backfill pass processed.
OffsetReached(r) ==
  IF r.pages = {} THEN StartOffsetOf(r)
  ELSE MaxOf(r.pages)
         + Cardinality(Covered(provider, MaxOf(r.pages), r.per_page))

InBackfill(p) == pc[p] \in {"backfill", "finish"}

\* ------------------------------------------------------------------ claims
\* C1 (as stated).  Resumability: a non-dry run that loads a valid cursor
\* {next_offset = K, completed = false} sends its first backfill listing
\* request at offset K; and once completed = true is persisted the terminal
\* state is the one an uninterrupted run from offset 0 reaches: next_offset
\* is absent and the raw store holds the record of every in-bound item of
\* the pages 0 .. stopping page.
C1_Resumability ==
  /\ \A p \in Procs :
       (InBackfill(p) /\ Resumable(run[p]) /\ IsSome(run[p].first_request))
       => Get(run[p].first_request) = Get(Get(run[p].state0).next_offset)
  /\ (IsSome(stateFile) /\ Get(stateFile).completed)
     => /\ Get(stateFile).next_offset = None
        /\ LET after == StartAfterTs(config, now)
               offs == FullPassOffsets(provider, after, config.per_page)
           IN \A o \in offs :
                \A j \in Covered(provider, o, config.per_page) :
                  InBound(provider[j], after)
                  => rawStore[j] = NormalizeActivity(provider[j])

\* C2 (as stated).  Idempotence: the second of two consecutive non-dry runs
\* that returned, over an unchanged dataset and configuration, returns a
\* summary with new_or_updated = 0.
C2_Idempotence ==
  \A p \in Procs :
    (pc[p] = "finish" /\ ~run[p].dry_run /\ run[p].prev.returned
       /\ run[p].env_same)
    => Returned(p).new_or_updated = 0

\* C2 (amended).  The same when the first run was not rate-limited, so that
\* it left a completed cursor: a run that follows a rate-limited run resumes
\* the backfill and stores the records of the pages that were left.
C2_IdempotenceAfterUnthrottledRun ==
  \A p \in Procs :
    (pc[p] = "finish" /\ ~run[p].dry_run /\ run[p].prev.returned
       /\ ~run[p].prev.rate_limited /\ run[p].env_same)
    => Returned(p).new_or_updated = 0

\* A second run after an unthrottled first run that fetched activities and
\* found every record stored already.
C2_Witness ==
  \E p \in Procs :
    /\ pc[p] = "finish" /\ ~run[p].dry_run /\ run[p].prev.returned
    /\ ~run[p].prev.rate_limited /\ run[p].env_same
    /\ Returned(p).fetched > 0
    /\ \E i \in StoreIds : IsSome(rawStore[i])

\* C3.  Scope invalidation (bound): when the persisted cursor's `after`
\* differs from the bound the run computed, the backfill pass is not
\* skipped and starts at offset 0, whatever next_offset or completed the
\* cursor holds.
C3_BoundChangeRestarts ==
  \A p \in Procs :
    (InBackfill(p) /\ IsSome(run[p].state0)
       /\ Get(run[p].state0).after # run[p].after)
    => /\ ~run[p].skip_backfill
       /\ run[p].state = None
       /\ IsSome(run[p].first_request) => Get(run[p].first_request) = 0
       /\ run[p].pages = {} => run[p].offset = 0
       /\ run[p].pages # {} => 0 \in run[p].pages

\* A run that loaded a cursor written for another bound, with a positive
\* next_offset or completed, and requested the listing at offset 0.
C3_Witness ==
  \E p \in Procs :
    /\ InBackfill(p) /\ ~run[p].dry_run /\ IsSome(run[p].state0)
    /\ Get(run[p].state0).after # run[p].after
    /\ Get(run[p].state0).activity_scope = run[p].scope
    /\ \/ Get(run[p].state0).completed
       \/ \E k \in 1..MaxItems : Get(run[p].state0).next_offset = Some(k)
    /\ run[p].first_request = Some(0)

\* C4.  Scope invalidation (activity scope): when the persisted cursor's
\* activity_scope differs from the scope of the current configuration, the
\* backfill pass is not skipped and starts at offset 0, also when the cursor
\* is completed with the same `after`.
C4_ScopeChangeRestarts ==
  \A p \in Procs :
    (InBackfill(p) /\ IsSome(run[p].state0)
       /\ Get(run[p].state0).activity_scope # ActivityScope(config))
    => /\ ~run[p].skip_backfill
       /\ run[p].state = None
       /\ IsSome(run[p].first_request) => Get(run[p].first_request) = 0
       /\ run[p].pages = {} => run[p].offset = 0
       /\ run[p].pages # {} => 0 \in run[p].pages

\* A run that loaded a completed cursor with the same bound and another
\* activity scope, and requested the listing at offset 0.
C4_Witness ==
  \E p \in Procs :
    /\ InBackfill(p) /\ ~run[p].dry_run /\ IsSome(run[p].state0)
    /\ Get(run[p].state0).activity_scope # ActivityScope(config)
    /\ Get(run[p].state0).after = run[p].after
    /\ Get(run[p].state0).completed
    /\ run[p].first_request = Some(0)

\* C5 (as stated).  COMPLETED fast path: when the persisted cursor is marked
\* completed for the identical (after, activity_scope), the backfill pass
\* is skipped and sends no listing request, and the summary has
\* backfill_completed = true and no backfill_next_offset.
C5_CompletedFastPath ==
  \A p \in Procs :
    (InBackfill(p) /\ IsSome(run[p].state0)
       /\ Get(run[p].state0).after = run[p].after
       /\ Get(run[p].state0).activity_scope = run[p].scope
       /\ Get(run[p].state0).completed)
    => /\ pc[p] = "finish"
       /\ run[p].skip_backfill
       /\ run[p].first_request = None
       /\ run[p].pages = {}
       /\ Returned(p).backfill_completed
       /\ Returned(p).backfill_next_offset = None

\* C5 (amended).  The same for a run that reads the cursor, which is a
\* non-dry run with resume_backfill enabled: any other run ignores the
\* cursor and pages from offset 0.
C5_CompletedFastPathWhenCursorRead ==
  \A p \in Procs :
    (InBackfill(p) /\ ~run[p].dry_run /\ run[p].resume_backfill
       /\ IsSome(run[p].state0)
       /\ Get(run[p].state0).after = run[p].after
       /\ Get(run[p].state0).activity_scope = run[p].scope
       /\ Get(run[p].state0).completed)
    => /\ pc[p] = "finish"
       /\ run[p].skip_backfill
       /\ run[p].first_request = None
       /\ run[p].pages = {}
       /\ Returned(p).backfill_completed
       /\ Returned(p).backfill_next_offset = None

\* A run about to return after it loaded a valid completed cursor, over a
\* listing that is not empty.
C5_Witness ==
  \E p \in Procs :
    /\ pc[p] = "finish" /\ ~run[p].dry_run /\ run[p].resume_backfill
    /\ run[p].skip_backfill
    /\ IsSome(run[p].state0) /\ Get(run[p].state0).completed
    /\ Get(run[p].state0).after = run[p].after
    /\ Len(provider) > 0

\* C6.  Rate limit during backfill: when a backfill listing request fails
\* with a rate-limit signal after n >= 0 pages were processed in this run,
\* the run goes on to return a summary and does not raise; the summary has
\* rate_limited = true, backfill_completed = false and the offset reached
\* after the last processed page (the starting offset when n = 0), and the
\* cursor the run persists holds the same.
C6_Throttled(r) == r.rate_limited /\ ~r.r_rate_limited

C6_RateLimitedBackfill ==
  [][\A p \in Procs :
       /\ (pc[p] = "backfill" /\ run'[p].rate_limited)
          => (pc'[p] = "finish" /\ run'[p].outcome = "running")
       /\ (pc[p] = "finish" /\ C6_Throttled(run[p]))
          => run'[p].outcome # "raised"
       /\ (Returns(p) /\ C6_Throttled(run[p]))
          => /\ Returned(p).rate_limited
             /\ ~Returned(p).backfill_completed
             /\ Returned(p).backfill_next_offset
                  = Some(OffsetReached(run[p]))
             /\ ~run[p].dry_run
                => /\ IsSome(stateFile')
                   /\ Get(stateFile').next_offset
                        = Some(OffsetReached(run[p]))
                   /\ Get(stateFile').rate_limited
                   /\ ~Get(stateFile').completed]_vars

\* A non-dry run whose backfill pass was rate-limited after it processed a
\* page.
C6_Witness ==
  \E p \in Procs :
    /\ pc[p] = "finish" /\ ~run[p].dry_run /\ C6_Throttled(run[p])
    /\ run[p].pages # {}
    /\ OffsetReached(run[p]) > 0

\* The backfill pass ended, unthrottled, on a page that holds an item older
\* than the bound; the number of in-bound items over the pages it fetched.
BoundaryEnded(r) ==
  /\ ~r.rate_limited
  /\ r.pages # {}
  /\ \E j \in Covered(provider, MaxOf(r.pages), r.per_page) :
       OutOfBound(provider[j], r.after)

InBoundFetched(r) ==
  Cardinality({ j \in UNION { Covered(provider, o, r.per_page) :
                              o \in r.pages } :
                  InBound(provider[j], r.after) })

\* C7 (as stated).  Boundary completion: when an unthrottled backfill pass
\* fetches pages until one that holds an item with timestamp < after, the
\* run ends with completed = true and no next_offset, and the summary's
\* fetched is the number of in-bound items over the pages fetched.
C7_BoundaryCompletion ==
  [][\A p \in Procs :
       (Returns(p) /\ BoundaryEnded(run[p]))
       => /\ Returned(p).backfill_completed
          /\ Returned(p).backfill_next_offset = None
          /\ Returned(p).fetched = InBoundFetched(run[p])
          /\ ~run[p].dry_run
             => /\ IsSome(stateFile')
                /\ Get(stateFile').completed
                /\ Get(stateFile').next_offset = None]_vars

\* C7 (amended).  The same, the summary's fetched being that number plus the
\* fetched count of the recent pass, which the summary embeds: an item that
\* both passes list is counted twice.
C7_BoundaryCompletionBothPasses ==
  [][\A p \in Procs :
       (Returns(p) /\ BoundaryEnded(run[p]))
       => /\ Returned(p).backfill_completed
          /\ Returned(p).backfill_next_offset = None
          /\ Returned(p).fetched
               = InBoundFetched(run[p]) + Returned(p).recent_sync.fetched
          /\ ~run[p].dry_run
             => /\ IsSome(stateFile')
                /\ Get(stateFile').completed
                /\ Get(stateFile').next_offset = None]_vars

\* A run about to return whose backfill pass fetched two pages, the second
\* one holding an out-of-bound item, after a recent pass that fetched an
\* item.
C7_Witness ==
  \E p \in Procs :
    /\ pc[p] = "finish" /\ BoundaryEnded(run[p])
    /\ Cardinality(run[p].pages) >= 2
    /\ InBoundFetched(run[p]) > 0
    /\ run[p].r.total > 0

\* The run of invocation p ends with a summary having skipped the backfill
\* pass: the fields of the cursor it loaded are carried forward.
CarriedForward(p) ==
  run[p].skip_backfill
  => /\ Get(stateFile').after = Get(run[p].state0).after
     /\ Get(stateFile').next_offset = Get(run[p].state0).next_offset
     /\ Get(stateFile').oldest_seen_ts = Get(run[p].state0).oldest_seen_ts
     /\ Get(stateFile').newest_seen_ts = Get(run[p].state0).newest_seen_ts

\* C8 (as stated).  Persistence contract: every run that returns (a
\* success, a rate-limited run, a run that skipped the backfill pass)
\* rewrites the cursor, and the cursor it writes holds the activity scope of
\* the current configuration, also when the other fields are carried
\* forward.
C8_PersistenceContract ==
  [][\A p \in Procs :
       Returns(p)
       => /\ IsSome(stateFile')
          /\ Get(stateFile').last_run_utc = now
          /\ Get(stateFile').rate_limited = run[p].rate_limited
          /\ Get(stateFile').activity_scope = ActivityScope(config)
          /\ CarriedForward(p)]_vars

\* C8 (amended).  The same for every non-dry run that returns: a dry run
\* writes no cursor.
C8_PersistenceContractNonDry ==
  [][\A p \in Procs :
       (Returns(p) /\ ~run[p].dry_run)
       => /\ IsSome(stateFile')
          /\ Get(stateFile').last_run_utc = now
          /\ Get(stateFile').rate_limited = run[p].rate_limited
          /\ Get(stateFile').activity_scope = ActivityScope(config)
          /\ CarriedForward(p)]_vars

\* The cursor written by a non-dry run that skipped the backfill pass after
\* a rate-limited recent pass: completed is carried forward, rate_limited
\* is the run's.
C8_Witness ==
  \E p \in Procs :
    /\ pc[p] = "idle" /\ run[p].outcome = "summary" /\ ~run[p].dry_run
    /\ run[p].rate_limited
    /\ IsSome(stateFile)
    /\ Get(stateFile).completed /\ Get(stateFile).rate_limited
    /\ Get(stateFile).activity_scope = ActivityScope(config)

\* C9.  At-least-once offset coverage under termination: with runs that may
\* be terminated at any point, over a stable dataset and an unchanged
\* configuration, the run after a terminated run starts its backfill pass
\* at the persisted offset (0 without a valid cursor), and completed = true
\* is never persisted while a page offset between 0 and the stopping page
\* was processed by no run.
C9_OffsetCoverage ==
  /\ \A p \in Procs :
       (InBackfill(p) /\ ~run[p].dry_run /\ run[p].prev.killed)
       => /\ run[p].pages = {} => run[p].offset = StartOffsetOf(run[p])
          /\ IsSome(run[p].first_request)
             => Get(run[p].first_request) = StartOffsetOf(run[p])
  /\ (IsSome(stateFile) /\ Get(stateFile).completed)
     => FullPassOffsets(provider, StartAfterTs(config, now), config.per_page)
          \subseteq hist.processed

\* completed = true is persisted after a run was terminated, over a listing
\* of more than one page.
C9_Witness ==
  /\ hist.killed
  /\ IsSome(stateFile) /\ Get(stateFile).completed
  /\ Cardinality(FullPassOffsets(provider, StartAfterTs(config, now),
                                 config.per_page)) >= 2

Starts(p) == pc[p] = "idle" /\ pc'[p] # "idle"

StoredFingerprint ==
  IF IsSome(athleteFile) THEN Some(Get(athleteFile).fingerprint) ELSE None

\* C11.  Identity reset: with a persisted fingerprint F1 and a
\* configuration whose fingerprint F2 differs from F1, the next non-dry
\* sync has removed the derived artifacts and every raw record by the time
\* it sends its first provider request, and before it writes a record.
C11_IdentityReset ==
  [][\A p \in Procs :
       (Starts(p) /\ ~run'[p].dry_run
          /\ IsSome(StoredFingerprint)
          /\ IsSome(AccountFingerprint(config))
          /\ StoredFingerprint # AccountFingerprint(config))
       => /\ rawStore' = EmptyStore
          /\ ~derived'
          /\ run'[p].first_request = None
          /\ run'[p].r_offset = 0
          /\ run'[p].r.total = 0 /\ run'[p].b.total = 0]_vars

\* A non-dry run after the account changed, over an empty raw store that
\* held a record under the former fingerprint.
C11_Witness ==
  \E p \in Procs :
    /\ pc[p] # "idle" /\ ~run[p].dry_run /\ run[p].reset
    /\ run[p].prev.returned /\ IsSome(run[p].prev.fingerprint)
    /\ rawStore = EmptyStore
    /\ hist.processed # {}
    /\ StoredFingerprint = AccountFingerprint(config)

\* C12.  Account-guard decision table: the guard resets exactly when the
\* current fingerprint is computable and either a stored fingerprint exists
\* and differs, or none is stored and derived data exists; with a matching
\* stored fingerprint, or none computable, it deletes nothing and leaves
\* the stored fingerprint as it is.
C12_ShouldReset ==
  /\ IsSome(AccountFingerprint(config))
  /\ \/ IsSome(StoredFingerprint)
        /\ StoredFingerprint # AccountFingerprint(config)
     \/ ~IsSome(StoredFingerprint) /\ derived

C12_GuardDecisionTable ==
  [][\A p \in Procs :
       (Starts(p) /\ ~run'[p].dry_run)
       => /\ run'[p].reset <=> C12_ShouldReset
          /\ C12_ShouldReset => (rawStore' = EmptyStore /\ ~derived')
          /\ ~C12_ShouldReset
             => (rawStore' = rawStore /\ derived' = derived)
          /\ (~IsSome(AccountFingerprint(config))
                \/ StoredFingerprint = AccountFingerprint(config))
             => athleteFile' = athleteFile]_vars

\* A non-dry run whose guard reset the data although no fingerprint was
\* stored before it: derived data of a run without fingerprint existed.
C12_Witness ==
  \E p \in Procs :
    /\ pc[p] # "idle" /\ ~run[p].dry_run /\ run[p].reset
    /\ run[p].prev.returned /\ run[p].prev.fingerprint = None
    /\ hist.processed # {}
    /\ rawStore = EmptyStore /\ ~derived
    /\ AccountFingerprint(config) = Some(<<"sha256", "tok", "">>)

\* C13.  Fingerprint ratchet: after the guard has run in a non-dry run with
\* a computable fingerprint, the persisted fingerprint is the current one;
\* and a persisted fingerprint record never becomes absent again.
C13_FingerprintRatchet ==
  [][/\ \A p \in Procs :
          (Starts(p) /\ ~run'[p].dry_run
             /\ IsSome(AccountFingerprint(config)))
          => /\ IsSome(athleteFile')
             /\ Some(Get(athleteFile').fingerprint)
                  = AccountFingerprint(config)
     /\ IsSome(athleteFile) => IsSome(athleteFile')]_vars

\* A non-dry run started with a fingerprint other than the one the run
\* before it had persisted, and the record holds the new one.
C13_Witness ==
  \E p \in Procs :
    /\ pc[p] # "idle" /\ ~run[p].dry_run
    /\ run[p].prev.fingerprint = Some(<<"hmac", "pw", "a@example.org">>)
    /\ StoredFingerprint = AccountFingerprint(config)
    /\ AccountFingerprint(config)
         = Some(<<"hmac", "pw", "b@example.org">>)

\* ------------------------------------------------------------------ pruner
\* The step in which invocation p leaves its last stage.
Finishes(p) == pc[p] = "finish" /\ pc'[p] = "idle"

\* The ids the run fetched in either pass (fetched_ids when the loop ends).
FetchIds(r) == r.b.ids

\* The id fields of the records a store holds.
RecordIds(store) ==
  { Get(store[i]).id : i \in { k \in StoreIds : IsSome(store[k]) } }

StoredKeys(store) == { k \in StoreIds : IsSome(store[k]) }

\* C14.  Prune safety: the step that ends a run deletes no stored record
\* whose id is among the ids the run fetched in its two passes, and deletes
\* nothing at all when the run's rate_limited flag is set.
C14_PruneSafety ==
  [][\A p \in Procs :
       Finishes(p)
       => /\ \A i \in StoreIds :
               (IsSome(rawStore[i])
                  /\ Get(rawStore[i]).id \in FetchIds(run[p]))
               => rawStore'[i] = rawStore[i]
          /\ run[p].rate_limited => rawStore' = rawStore]_vars

\* C15.  Prune eligibility: a run that ends deletes stored records only when
\* pruning was requested, the run is not dry, the backfill pass was not
\* skipped, it was exhausted, and neither pass was rate limited; any other
\* run reports deleted = 0, leaves the store as it is and returns its
\* summary.
C15_PruneEligibility ==
  [][\A p \in Procs :
       Finishes(p)
       => LET r == run[p] IN
          \/ /\ r.prune_deleted /\ ~r.dry_run /\ ~r.skip_backfill
             /\ r.exhausted /\ ~r.rate_limited /\ ~r.r_rate_limited
          \/ /\ Returned(p).deleted = 0
             /\ rawStore' = rawStore
             /\ run'[p].outcome = "summary"]_vars

\* A non-dry run asked to prune is about to return after a rate-limited
\* backfill pass, and the store holds a file whose name is not among the
\* ids the run fetched.
C15_Witness ==
  \E p \in Procs :
    /\ pc[p] = "finish"
    /\ run[p].prune_deleted /\ ~run[p].dry_run /\ run[p].rate_limited
    /\ run[p].pages # {}
    /\ \E k \in StoredKeys(rawStore) : k \notin FetchIds(run[p])

\* C16.  Prune result: when the pruner runs, the ids of the stored records
\* afterwards are the ids stored before that the run fetched, and the
\* summary's deleted is the number of records removed.
C16_PruneResult ==
  [][\A p \in Procs :
       (Finishes(p) /\ CanPruneDeleted(run[p]))
       => /\ RecordIds(rawStore')
               = RecordIds(rawStore) \cap FetchIds(run[p])
          /\ Returned(p).deleted
               = Cardinality(StoredKeys(rawStore))
                   - Cardinality(StoredKeys(rawStore'))]_vars

\* -------------------------------------------------------------- enrichment
\* The ids for which the run has asked the detail endpoint.
Looked(r) == r.r.looked \cup r.b.looked

\* The ids of the records the run has counted as fetched.
Listed(r) == r.r.ids \cup r.b.ids

\* C17.  Duration lookup (as stated): the detail endpoint is asked about a
\* record only when its listed duration is zero; a record with a non-zero
\* duration is never asked about and is stored with its listed duration.
C17_LookupOnlyForZeroDuration ==
  \A p \in Procs : \A j \in 1..Len(provider) :
    LET raw == provider[j]
        d == PickDurationSeconds(raw.durs)
    IN WellFormed(raw)
       => /\ Get(raw.activityId) \in Looked(run[p]) => d = 0
          /\ d # 0
             => /\ Get(raw.activityId) \notin Looked(run[p])
                /\ IsSome(rawStore[j]) => Get(rawStore[j]).moving_time = d

\* C17 (amended).  The detail endpoint is asked about a record only when
\* its listed duration is not positive (zero or negative); a record with a
\* positive duration is never asked about and is stored with its listed
\* duration.
C17_LookupOnlyForNonPositiveDuration ==
  \A p \in Procs : \A j \in 1..Len(provider) :
    LET raw == provider[j]
        d == PickDurationSeconds(raw.durs)
    IN WellFormed(raw)
       => /\ Get(raw.activityId) \in Looked(run[p]) => d <= 0
          /\ d > 0
             => /\ Get(raw.activityId) \notin Looked(run[p])
                /\ IsSome(rawStore[j]) => Get(rawStore[j]).moving_time = d

\* A non-dry run has scanned a record listed with a negative duration, which
\* it asked about, and a record listed with a positive duration, which it
\* stored without asking.
C17_Witness ==
  \E p \in Procs : \E j, k \in 1..Len(provider) :
    /\ pc[p] = "finish" /\ ~run[p].dry_run
    /\ WellFormed(provider[j]) /\ WellFormed(provider[k])
    /\ PickDurationSeconds(provider[j].durs) < 0
    /\ j \in Looked(run[p])
    /\ PickDurationSeconds(provider[k].durs) > 0
    /\ k \in Listed(run[p]) /\ k \notin Looked(run[p])
    /\ IsSome(rawStore[k])

\* ------------------------------------------------------------------ upsert
\* The records a listing can show for the stored ids, and a listing item
\* that yields the record a.
C18_Records ==
  { [id |-> j, start_date |-> 3, moving_time |-> m] :
      j \in 1..MaxItems, m \in {0 - 2, 0, 5, 7} }

C18_RawOf(a) ==
  [activityId |-> Some(a.id), startTime |-> Some(a.start_date),
   durs |-> <<Num(a.moving_time)>>, detail |-> a.moving_time]

\* C18.  Idempotent upsert: scanning an in-bound record in a non-dry run
\* leaves the store as it is and counts nothing when the store holds an
\* identical record for the id; otherwise the stored record for the id
\* becomes the record observed, no other record changes, and the record is
\* counted once in new_or_updated.
C18_IdempotentUpsert ==
  \A a \in C18_Records :
    LET acc == ScanItem(C18_RawOf(a), 0, FALSE, {}, NewAcc(rawStore))
        w == WriteActivity(rawStore, a)
    IN /\ acc.store = w.store
       /\ acc.new_or_updated = (IF w.written THEN 1 ELSE 0)
       /\ IF rawStore[a.id] = Some(a)
          THEN acc.store = rawStore /\ acc.new_or_updated = 0
          ELSE /\ acc.store = [rawStore EXCEPT ![a.id] = Some(a)]
               /\ acc.new_or_updated = 1

\* The store holds, for one id, a record that a run wrote: one of the
\* records observed is identical to it and the others differ from it.
C18_Witness ==
  \E a \in C18_Records :
    /\ rawStore[a.id] = Some(a)
    /\ \E p \in Procs : pc[p] = "finish" /\ ~run[p].dry_run
                          /\ run[p].b.new_or_updated + run[p].r.new_or_updated
                               > 0

\* --------------------------------------------------------------- unsafe ids
\* The ids of a set that _write_activity accepts.
SafeIds(ids) == { i \in ids : StripId(i) > 0 }

\* C19.  Id safety: a record whose id is blank or names a path (a
\* separator, "..") is never written and never counted in new_or_updated;
\* every file of the raw store has a safe name, which is the stripped id of
\* the record it holds.
C19_IdSafety ==
  /\ \A k \in StoreIds :
       IsSome(rawStore[k]) => (k > 0 /\ StripId(Get(rawStore[k]).id) = k)
  /\ \A j \in 1..Len(provider) :
       LET raw == provider[j]
           acc == ScanItem(raw, 0, FALSE, {}, NewAcc(rawStore))
       IN (WellFormed(raw) /\ StripId(Get(raw.activityId)) <= 0)
          => (acc.store = rawStore /\ acc.new_or_updated = 0)
  /\ \A p \in Procs :
       /\ run[p].r.new_or_updated <= Cardinality(SafeIds(run[p].r.ids))
       /\ run[p].b.new_or_updated <= Cardinality(SafeIds(run[p].b.ids))

\* A non-dry run has scanned a record with an unsafe id and a record with a
\* safe one: it counted two records as fetched and one as new, and the one
\* is stored.
C19_Witness ==
  \E p \in Procs :
    /\ pc[p] = "finish" /\ ~run[p].dry_run
    /\ \E i \in run[p].b.ids : i < 0
    /\ run[p].b.total = 2 /\ run[p].b.new_or_updated = 1
    /\ \E k \in StoreIds : IsSome(rawStore[k])

\* --------------------------------------------------------- malformed items
\* The ids of the listing items that have an id and a start time.
WellFormedIds ==
  { Get(provider[j].activityId) :
      j \in { k \in 1..Len(provider) : WellFormed(provider[k]) } }

\* C20.  Malformed items: a listing item with no id or no start time yields
\* no record in either pass: scanning it changes nothing (no count, no id
\* fetched, no write, no detail lookup), so a run's fetch ids, lookups,
\* counts and stored files are those of the well-formed items only.
C20_MalformedItemsSkipped ==
  /\ \A j \in 1..Len(provider) :
       ~WellFormed(provider[j])
       => /\ NormalizeActivity(provider[j]) = None
          /\ \A p \in Procs, dry_run \in BOOLEAN, after \in {0, now} :
               \A acc \in {NewAcc(rawStore), run[p].r, run[p].b} :
                 ScanItem(provider[j], after, dry_run, {}, acc) = acc
  /\ \A p \in Procs :
       /\ Listed(run[p]) \subseteq WellFormedIds
       /\ Looked(run[p]) \subseteq WellFormedIds
       /\ run[p].r.total <= Cardinality(WellFormedIds)
       /\ run[p].b.total <= Cardinality(WellFormedIds)
       /\ run[p].r.new_or_updated <= run[p].r.total
       /\ run[p].b.new_or_updated <= run[p].b.total
  /\ StoredKeys(rawStore) \subseteq WellFormedIds

\* A non-dry run has scanned, in both passes, a whole listing of one
\* well-formed item and one item with an id and no start time: each pass
\* counted one record, and one file is stored.
C20_Witness ==
  \E p \in Procs : \E j, k \in 1..Len(provider) :
    /\ pc[p] = "finish" /\ ~run[p].dry_run /\ run[p].exhausted
    /\ Len(provider) = 2
    /\ IsSome(provider[j].activityId) /\ ~IsSome(provider[j].startTime)
    /\ WellFormed(provider[k])
    /\ run[p].r.total = 1 /\ run[p].b.total = 1
    /\ StoredKeys(rawStore) = {k}

\* ------------------------------------------------------- listing failures
\* The failure carries one of the markers: in its class name, or in its
\* text ("too many requests", "429", "rate limit").
HasMarker(exc) ==
  \/ exc.name_toomanyrequests \/ exc.text_too_many_requests
  \/ exc.text_429 \/ exc.text_rate_limit

\* The step in which a listing request of invocation p fails with exc.
FailsWith(p, exc) ==
  /\ pc[p] \in {"recent", "backfill"}
  /\ run[p].error = None /\ run'[p].error = Some(exc)

\* C21.  Rate-limit detection: a listing failure that carries a marker in
\* its class name or its text does not abort the run: the pass stops
\* paging with its rate-limit flag set, no further page is requested, and
\* the run goes on to return its summary.
C21_RateLimitDetection ==
  [][\A p \in Procs : \A exc \in ListingErrors :
       (FailsWith(p, exc) /\ HasMarker(exc))
       => /\ run'[p].outcome = "running"
          /\ run'[p].rate_limited
          /\ pc'[p] = "finish"]_vars

\* C22.  Fatal listing failure: a listing failure that the rate-limit test
\* does not match ends the run with the error, and the run leaves the
\* persisted cursor as it was: the cursor file changes only in the step in
\* which a run returns its summary.
C22_FatalListingFailure ==
  [][/\ \A p \in Procs : \A exc \in ListingErrors :
          (FailsWith(p, exc) /\ ~IsRateLimitedError(FetchPageError(exc)))
          => /\ run'[p].outcome = "raised" /\ pc'[p] = "idle"
             /\ stateFile' = stateFile
     /\ stateFile' # stateFile => \E p \in Procs : Returns(p)]_vars

\* A run has failed after an earlier run persisted an unfinished cursor at
\* offset 1: the cursor is still that one, though the store holds more
\* records than the cursor's offset.
C22_Witness ==
  \E p \in Procs :
    /\ pc[p] = "idle" /\ run[p].outcome = "raised" /\ ~run[p].dry_run
    /\ IsSome(run[p].error)
    /\ IsSome(stateFile) /\ ~Get(stateFile).completed
    /\ Get(stateFile).next_offset = Some(1)
    /\ Cardinality(StoredKeys(rawStore)) = 2

\* ------------------------------------------------------------- recent pass
\* The step in which a listing request of the recent pass succeeds, and the
\* page it returns.
RecentPageReturned(p) ==
  pc[p] = "recent" /\ run'[p].error = None /\ run'[p].outcome = "running"

RecentPageOf(r) == Covered(provider, r.r_offset, r.per_page)

\* C23.  Recent-window paging: the recent pass asks for pages of P items
\* from offset 0 against the bound now - W; having got a page, it asks for
\* a further one, at the offset advanced by the page's length, only if the
\* page held P items or more and none older than the bound, and otherwise
\* stops; with W <= 0 it asks for none.
C23_RecentWindowPaging ==
  [][\A p \in Procs :
       /\ Starts(p)
          => /\ run'[p].r_offset = 0
             /\ run'[p].recent_after = now - config.recent_days
             /\ run'[p].per_page = config.per_page
             /\ config.recent_days <= 0 => pc'[p] # "recent"
       /\ RecentPageReturned(p)
          => LET r == run[p]
                 page == RecentPageOf(r)
                 boundary == \E j \in page :
                               OutOfBound(provider[j], r.recent_after)
             IN /\ run'[p].recent_after = r.recent_after
                /\ run'[p].per_page = r.per_page
                /\ IF Cardinality(page) >= r.per_page /\ ~boundary
                   THEN /\ pc'[p] = "recent"
                        /\ run'[p].r_offset = r.r_offset + Cardinality(page)
                   ELSE pc'[p] # "recent"]_vars

\* The recent pass has asked for a second page, which holds an item older
\* than the bound, after a first page whose items it counted.
C23_Witness ==
  \E p \in Procs :
    /\ pc[p] = "recent" /\ run[p].r_offset > 0 /\ run[p].r.total > 0
    /\ \E j \in RecentPageOf(run[p]) :
         OutOfBound(provider[j], run[p].recent_after)

\* ---------------------------------------------------------- whole-page scan
\* The step in which a listing request of the backfill pass succeeds, and
\* the page it returns.
BackfillPageReturned(p) ==
  pc[p] = "backfill" /\ run'[p].error = None /\ run'[p].outcome = "running"

BackfillPageOf(r) == Covered(provider, r.offset, r.per_page)

IdOf(j) == Get(provider[j].activityId)

\* What a pass has done with a page, given its accumulators before (acc)
\* and after (acc2): every in-bound item is counted, its id fetched and,
\* unless the run is dry, its record stored; an item older than the bound
\* sets the boundary flag and is neither counted nor written.
C24_Scanned(page, after, dry_run, acc, acc2) ==
  LET inb == { j \in page : InBound(provider[j], after) }
      oob == { j \in page : OutOfBound(provider[j], after) }
  IN /\ acc2.total = acc.total + Cardinality(inb)
     /\ acc2.ids = acc.ids \cup { IdOf(j) : j \in inb }
     /\ acc2.boundary = (oob # {})
     /\ \A j \in inb :
          ~dry_run => /\ IsSome(rawStore'[IdOf(j)])
                      /\ Get(rawStore'[IdOf(j)]).id = IdOf(j)
                      /\ Get(rawStore'[IdOf(j)]).start_date
                           = Get(provider[j].startTime)
     /\ \A j \in oob : rawStore'[IdOf(j)] = rawStore[IdOf(j)]
     /\ dry_run => rawStore' = rawStore

\* C24.  Whole-page scan: in both passes, every well-formed item of a
\* fetched page that is not older than the pass's bound is counted, added
\* to the fetch ids and offered to the store, wherever it stands in the
\* page relative to older items; an older item only sets the boundary flag.
C24_WholePageScan ==
  [][\A p \in Procs :
       /\ (RecentPageReturned(p) /\ RecentPageOf(run[p]) # {})
          => C24_Scanned(RecentPageOf(run[p]), run[p].recent_after,
                         run[p].dry_run, run[p].r, run'[p].r)
       /\ (BackfillPageReturned(p) /\ BackfillPageOf(run[p]) # {})
          => C24_Scanned(BackfillPageOf(run[p]), run[p].after,
                         run[p].dry_run, run[p].b, run'[p].b)]_vars

\* The backfill pass of a non-dry run has scanned one page of two items,
\* the first older than the bound and the second not: it counted and
\* stored the second.
C24_Witness ==
  \E p \in Procs :
    /\ pc[p] = "finish" /\ ~run[p].dry_run /\ run[p].exhausted
    /\ run[p].pages = {0} /\ run[p].per_page = 2 /\ Len(provider) = 2
    /\ OutOfBound(provider[1], run[p].after)
    /\ InBound(provider[2], run[p].after)
    /\ run[p].r.total = 0
    /\ run[p].b.boundary /\ run[p].b.total = 1 /\ run[p].b.ids = {2}
    /\ IsSome(rawStore[2]) /\ ~IsSome(rawStore[1])

\* ------------------------------------------------------------ cursor shape
\* completed holds exactly when next_offset is absent, and an offset that
\* is present is a natural number.
C25_Shaped(completed, next_offset) ==
  /\ completed <=> ~IsSome(next_offset)
  /\ IsSome(next_offset) => Get(next_offset) \in Nat

\* C25.  Cursor shape: every cursor a run persists and every summary a run
\* returns has completed true exactly when next_offset is absent; an
\* incomplete one carries an offset >= 0.
C25_CursorShape ==
  [][/\ IsSome(stateFile')
        => C25_Shaped(Get(stateFile').completed, Get(stateFile').next_offset)
     /\ \A p \in Procs :
          Returns(p)
          => C25_Shaped(Returned(p).backfill_completed,
                        Returned(p).backfill_next_offset)]_vars

\* A non-dry run has returned after a rate-limited backfill pass and has
\* persisted an unfinished cursor with a positive offset.
C25_Witness ==
  \E p \in Procs :
    /\ pc[p] = "idle" /\ run[p].outcome = "summary" /\ ~run[p].dry_run
    /\ run[p].rate_limited
    /\ IsSome(stateFile) /\ ~Get(stateFile).completed
    /\ IsSome(Get(stateFile).next_offset)
    /\ Get(Get(stateFile).next_offset) > 0

\* ------------------------------------------------------------------ coverage
\* The items of a listing that have a start time that parses and an id.
Dated(listing) ==
  { j \in 1..Len(listing) :
      WellFormed(listing[j]) /\ Get(listing[j].startTime) >= 0 }

\* The listing shows its dated items newest first.
NewestFirst(listing) ==
  \A i, j \in Dated(listing) :
    i < j => Get(listing[i].startTime) >= Get(listing[j].startTime)

\* The record a run stores for the listing item at position j at present.
LatestRecord(j) ==
  EnrichMissingDuration(Get(NormalizeActivity(provider[j])),
                        ClientDetail(provider[j], Down)).activity

\* Every dated item with a writable id and a start time >= after is stored
\* with its present content.
CoveredFrom(after) ==
  \A j \in Dated(provider) :
    (StripId(IdOf(j)) > 0 /\ Get(provider[j].startTime) >= after)
    => rawStore[StripId(IdOf(j))] = Some(LatestRecord(j))

\* C26.  Completion implies coverage: over a stable listing shown newest
\* first, with a constant configuration and account and no run asked to
\* prune, whenever the persisted cursor says completed, every listed
\* activity with a valid id and a start time >= the cursor's bound is in the
\* raw store with its present content.
C26_CompletionImpliesCoverage ==
  (IsSome(stateFile) /\ Get(stateFile).completed /\ NewestFirst(provider))
  => CoveredFrom(Get(stateFile).after)

\* The second run has persisted a completed cursor over a listing of two
\* dated items newest first, the second older than the bound.
C26_Witness ==
  \E p \in Procs :
    /\ pc[p] = "idle" /\ run[p].outcome = "summary" /\ ~run[p].dry_run
    /\ IsSome(stateFile) /\ Get(stateFile).completed
    /\ NewestFirst(provider) /\ Dated(provider) = {1, 2}
    /\ Get(provider[2].startTime) < Get(stateFile).after
    /\ Get(provider[1].startTime) >= Get(stateFile).after
    /\ nruns >= 2 /\ 0 \in hist.processed
    /\ IsSome(rawStore[1])

\* C27.  Prune coverage: whenever the pruner runs over a listing shown
\* newest first, the ids the run fetched include every listed activity with
\* a start time >= after, so no stored record of such an activity is
\* deleted, also when the backfill pass resumed at a persisted offset > 0.
C27_PruneCoverage ==
  [][\A p \in Procs :
       (Finishes(p) /\ CanPruneDeleted(run[p]) /\ NewestFirst(provider))
       => \A j \in Dated(provider) :
            Get(provider[j].startTime) >= run[p].after
            => /\ IdOf(j) \in FetchIds(run[p])
               /\ rawStore'[IdOf(j)] = rawStore[IdOf(j)]]_vars

\* ------------------------------------------------- reset and the cursor
\* The step in which invocation p leaves the recent pass (or its prologue,
\* when there is no recent pass) and sets up the backfill pass.
EntersBackfill(p) ==
  /\ pc[p] \in {"idle", "recent"} /\ pc'[p] \in {"backfill", "finish"}
  /\ run'[p].outcome = "running"

\* C28.  Reset restarts the backfill: in a run whose account guard reset
\* the persisted data, the backfill pass is not skipped as complete and
\* starts at offset 0, whatever the persisted cursor says.
C28_ResetRestartsBackfill ==
  [][\A p \in Procs :
       (EntersBackfill(p) /\ run'[p].reset /\ ~run'[p].r_rate_limited)
       => /\ ~run'[p].skip_backfill
          /\ run'[p].offset = 0
          /\ pc'[p] = "backfill"]_vars

\* C29.  Cursor validity under an unchanged configuration: a non-dry run
\* that finds a persisted cursor computes the bound that the cursor holds,
\* so it skips the backfill pass when the cursor is completed and resumes
\* at the cursor's offset when it is not, whether the bound comes from
\* sync.start_date or from sync.lookback_years and the clock.
C29_CursorValidity ==
  [][\A p \in Procs :
       (EntersBackfill(p) /\ ~run'[p].dry_run /\ IsSome(stateFile))
       => /\ run'[p].after = Get(stateFile).after
          /\ IF Get(stateFile).completed
             THEN run'[p].skip_backfill
             ELSE /\ ~run'[p].skip_backfill
                  /\ Some(run'[p].offset) = Get(stateFile).next_offset]_vars

\* C30.  Backfill per-page transition: after a non-empty page of L items
\* fetched at offset o, next_offset is o + L; the pass asks for a further
\* page, at o + L, only if the page held no item older than the bound and
\* L is not below the page size; an empty page, a short page and a
\* boundary page end the pass as exhausted.
C30_BackfillPageTransition ==
  [][\A p \in Procs :
       BackfillPageReturned(p)
       => LET r == run[p]
              page == BackfillPageOf(r)
              L == Cardinality(page)
              boundary == \E j \in page : OutOfBound(provider[j], r.after)
          IN IF L = 0
             THEN /\ run'[p].exhausted /\ pc'[p] = "finish"
                  /\ run'[p].next_offset = r.next_offset
             ELSE /\ run'[p].next_offset = Some(r.offset + L)
                  /\ IF L >= r.per_page /\ ~boundary
                     THEN /\ pc'[p] = "backfill"
                          /\ run'[p].offset = r.offset + L
                          /\ ~run'[p].exhausted
                     ELSE run'[p].exhausted /\ pc'[p] = "finish"]_vars

\* The backfill pass has processed a full page and is about to ask for the
\* next one, which holds an item older than the bound.
C30_Witness ==
  \E p \in Procs :
    /\ pc[p] = "backfill" /\ run[p].offset > 0 /\ run[p].pages # {}
    /\ run[p].b.total > 0
    /\ \E j \in BackfillPageOf(run[p]) :
         OutOfBound(provider[j], run[p].after)

\* ---------------------------------------------------- throttled recent pass
\* The step in which the recent pass of invocation p is rate limited.
RecentThrottled(p) ==
  pc[p] = "recent" /\ run'[p].r_rate_limited /\ ~run[p].r_rate_limited

\* The run of invocation p, whose recent pass was rate limited, returns.
ReturnsThrottledRecent(p) == Returns(p) /\ run[p].r_rate_limited

\* C31 (as stated).  Throttled recent pass: the run does not raise, the
\* backfill pass asks for no page, the summary has rate_limited, and the
\* persisted cursor keeps its next_offset, completed, oldest_seen_ts and
\* newest_seen_ts.
C31_ThrottledRecentKeepsCursor ==
  [][\A p \in Procs :
       /\ RecentThrottled(p)
          => (pc'[p] = "finish" /\ run'[p].outcome = "running")
       /\ ReturnsThrottledRecent(p)
          => /\ run[p].pages = {} /\ run[p].first_request = None
             /\ Returned(p).rate_limited
             /\ IsSome(stateFile)
                => /\ IsSome(stateFile')
                   /\ Get(stateFile').next_offset = Get(stateFile).next_offset
                   /\ Get(stateFile').completed = Get(stateFile).completed
                   /\ Get(stateFile').oldest_seen_ts
                        = Get(stateFile).oldest_seen_ts
                   /\ Get(stateFile').newest_seen_ts
                        = Get(stateFile).newest_seen_ts]_vars

\* C31 (amended).  Throttled recent pass: the run does not raise, the
\* backfill pass asks for no page and the summary has rate_limited.  A dry
\* run leaves the cursor file alone.  A non-dry run that loaded a cursor
\* valid for its bound and scope keeps the cursor's next_offset and
\* completed; it keeps oldest_seen_ts and newest_seen_ts when the cursor
\* was completed and clears them when it was not.  A non-dry run with no
\* valid cursor persists an unfinished cursor at offset 0.
C31_ThrottledRecentKeepsOffset ==
  [][\A p \in Procs :
       /\ RecentThrottled(p)
          => (pc'[p] = "finish" /\ run'[p].outcome = "running")
       /\ ReturnsThrottledRecent(p)
          => /\ run[p].pages = {} /\ run[p].first_request = None
             /\ Returned(p).rate_limited
             /\ run[p].dry_run => stateFile' = stateFile
             /\ (~run[p].dry_run /\ IsSome(run[p].state))
                => /\ run[p].state = stateFile
                   /\ Get(stateFile').next_offset = Get(stateFile).next_offset
                   /\ Get(stateFile').completed = Get(stateFile).completed
                   /\ IF Get(stateFile).completed
                      THEN /\ Get(stateFile').oldest_seen_ts
                                = Get(stateFile).oldest_seen_ts
                           /\ Get(stateFile').newest_seen_ts
                                = Get(stateFile).newest_seen_ts
                      ELSE /\ Get(stateFile').oldest_seen_ts = None
                           /\ Get(stateFile').newest_seen_ts = None
             /\ (~run[p].dry_run /\ ~IsSome(run[p].state))
                => /\ Get(stateFile').next_offset = Some(0)
                   /\ ~Get(stateFile').completed]_vars

\* A non-dry run whose recent pass was rate limited is about to return; it
\* loaded an unfinished cursor with a positive offset and the oldest start
\* time an earlier run had seen.
C31_Witness ==
  \E p \in Procs :
    /\ pc[p] = "finish" /\ run[p].r_rate_limited /\ ~run[p].dry_run
    /\ IsSome(run[p].state) /\ run[p].state = stateFile
    /\ ~Get(stateFile).completed
    /\ IsSome(Get(stateFile).next_offset)
    /\ Get(Get(stateFile).next_offset) > 0
    /\ IsSome(Get(stateFile).oldest_seen_ts)

\* ----------------------------------------------- completed and rate_limited
\* C32 (as stated).  No run reports rate_limited together with completed,
\* in the summary it returns or in the cursor it persists.
C32_NeverThrottledAndCompleted ==
  [][\A p \in Procs :
       Returns(p)
       => /\ ~(Returned(p).rate_limited /\ Returned(p).backfill_completed)
          /\ ~run[p].dry_run
             => ~(Get(stateFile').rate_limited
                    /\ Get(stateFile').completed)]_vars

\* C32 (amended).  A run reports rate_limited together with completed, in
\* its summary or its cursor, only when its recent pass was rate limited and
\* it skipped the backfill pass because the cursor it loaded was completed;
\* a run whose backfill pass was entered never reports both.
C32_ThrottledAndCompletedOnlyOnSkip ==
  [][\A p \in Procs :
       Returns(p)
       => /\ (Returned(p).rate_limited /\ Returned(p).backfill_completed)
             => (run[p].skip_backfill /\ run[p].r_rate_limited)
          /\ (~run[p].dry_run /\ Get(stateFile').rate_limited
                /\ Get(stateFile').completed)
             => (run[p].skip_backfill /\ run[p].r_rate_limited)
          /\ (run[p].rate_limited /\ ~run[p].r_rate_limited)
             => /\ ~Returned(p).backfill_completed
                /\ ~run[p].dry_run => ~Get(stateFile').completed]_vars

\* A non-dry run has returned with rate_limited and has persisted a cursor
\* that is completed and rate limited.
C32_Witness ==
  \E p \in Procs :
    /\ pc[p] = "idle" /\ run[p].outcome = "summary" /\ ~run[p].dry_run
    /\ run[p].rate_limited
    /\ IsSome(stateFile)
    /\ Get(stateFile).completed /\ Get(stateFile).rate_limited

\* --------------------------------------------------------- monotone progress
\* The cursor file is rewritten for the bound and scope it was written for.
SameCursorKey ==
  /\ IsSome(stateFile) /\ IsSome(stateFile')
  /\ Get(stateFile').after = Get(stateFile).after
  /\ Get(stateFile').activity_scope = Get(stateFile).activity_scope

\* C33.  Monotone progress: with resume enabled, over a stable listing and
\* an unchanged bound and scope, a run never persists a lower next_offset
\* than the one persisted before it while the cursor is unfinished, and a
\* completed cursor stays completed.
C33_MonotoneProgress ==
  [][SameCursorKey
     => /\ Get(stateFile).completed => Get(stateFile').completed
        /\ (~Get(stateFile).completed /\ ~Get(stateFile').completed)
           => Get(Get(stateFile').next_offset)
                >= Get(Get(stateFile).next_offset)]_vars

\* A non-dry run that resumed at the persisted offset 1 has processed a
\* page and was then rate limited: it is about to persist offset 2.
C33_Witness ==
  \E p \in Procs :
    /\ pc[p] = "finish" /\ ~run[p].dry_run
    /\ run[p].rate_limited /\ ~run[p].r_rate_limited
    /\ IsSome(run[p].state) /\ run[p].state = stateFile
    /\ Get(stateFile).next_offset = Some(1)
    /\ run[p].pages = {1} /\ run[p].offset = 2

\* ---------------------------------------------------------------- C34
\* SpecLive: non-dry invocations repeated without end over a stable listing
\* with an unchanged configuration and resume_backfill enabled.  Listing
\* requests succeed or, in the backfill pass once the invocation has
\* processed a page, fail with a rate-limit signal.  An invocation that
\* can take its next step takes it, and an idle installation is run again.
LiveProcs == {1}

BeginNonDryRun(p) == BeginRun(p, FALSE, FALSE) /\ UNCHANGED nruns

BackfillRateLimitedAfterPage(p) ==
  /\ run[p].pages # {}
  /\ BackfillRateLimited(p)

InitLive ==
  InitWith(ListingsCfg, ConfigsOf(StartDates, RecentDays, {TRUE}), LiveProcs)

NextLive ==
  \/ \E p \in LiveProcs : BeginNonDryRun(p)
  \/ \E p \in LiveProcs : RecentPage(p)
  \/ \E p \in LiveProcs : BackfillPage(p)
  \/ \E p \in LiveProcs : BackfillRateLimitedAfterPage(p)
  \/ \E p \in LiveProcs : Finish(p)

FairLive ==
  \A p \in LiveProcs :
    /\ WF_vars(BeginNonDryRun(p))
    /\ WF_vars(RecentPage(p))
    /\ WF_vars(BackfillPage(p))
    /\ WF_vars(Finish(p))

SpecLive == InitLive /\ [][NextLive]_vars /\ FairLive

\* C34: Over a stable finite listing, with unchanged (after, scope) and
\* resume_backfill enabled, every invocation terminates, and when every
\* invocation processes at least one backfill page before any throttling,
\* repeated non-dry invocations eventually persist a cursor with
\* completed = true.
C34_EventualCompletion ==
  /\ \A p \in LiveProcs : (pc[p] # "idle") ~> (pc[p] = "idle")
  /\ <>(IsSome(stateFile) /\ Get(stateFile).completed)

\* An invocation that resumed from the cursor a throttled invocation had
\* left has exhausted the listing and is about to persist completed = true.
C34_Witness ==
  \E p \in Procs :
    /\ pc[p] = "finish"
    /\ run[p].prev.returned /\ run[p].prev.rate_limited
    /\ IsSome(run[p].state)
    /\ IsSome(Get(run[p].state).next_offset)
    /\ Get(Get(run[p].state).next_offset) > 0
    /\ run[p].exhausted /\ ~run[p].rate_limited
    /\ Completed(run[p])
    /\ run[p].pages # {}

\* ---------------------------------------------------------------- C35
\* A step of a dry run: the step that starts it or a later step of it.
DryStep(p) ==
  \/ Starts(p) /\ run'[p].dry_run
  \/ pc[p] # "idle" /\ run[p].dry_run

\* C35.  Dry-run frame: a run with dry_run = true leaves the raw store,
\* the persisted cursor and the persisted fingerprint (and the derived
\* artifacts) as they are, prunes nothing, and ignores any persisted
\* cursor: its backfill pass starts at offset 0 and is never skipped as
\* complete.
C35_DryRunFrame ==
  [][\A p \in Procs :
       DryStep(p)
       => /\ rawStore' = rawStore
          /\ stateFile' = stateFile
          /\ athleteFile' = athleteFile
          /\ derived' = derived
          /\ pc[p] = "finish"
             => /\ ~CanPruneDeleted(run[p])
                /\ PruneDeleted(run[p], rawStore).deleted = 0
          /\ InBackfill(p)
             => /\ ~run[p].skip_backfill
                /\ run[p].state = None
                /\ IsSome(run[p].first_request)
                   => Get(run[p].first_request) = 0
                /\ run[p].pages = {} => run[p].offset = 0
                /\ run[p].pages # {} => 0 \in run[p].pages]_vars

\* A dry run asked to prune is about to return after its backfill pass
\* exhausted the listing from offset 0, while a completed cursor, raw
\* records and the fingerprint of another account are persisted.
C35_Witness ==
  \E p \in Procs :
    /\ pc[p] = "finish" /\ run[p].dry_run /\ run[p].prune_deleted
    /\ run[p].exhausted /\ ~run[p].rate_limited
    /\ run[p].first_request = Some(0)
    /\ IsSome(stateFile) /\ Get(stateFile).completed
    /\ Get(stateFile).after = run[p].after
    /\ Get(stateFile).activity_scope = run[p].scope
    /\ IsSome(StoredFingerprint)
    /\ IsSome(AccountFingerprint(config))
    /\ StoredFingerprint # AccountFingerprint(config)
    /\ \E i \in StoreIds : IsSome(rawStore[i])

\* ---------------------------------------------------------------- C36
\* C36.  Summary and cursor agree: when a non-dry run returns, the
\* persisted cursor's after and activity_scope are those of the current
\* configuration, and its next_offset, completed and rate_limited are the
\* summary's backfill_next_offset, backfill_completed and rate_limited.
C36_SummaryAndCursorAgree ==
  [][\A p \in Procs :
       (Returns(p) /\ ~run[p].dry_run)
       => /\ IsSome(stateFile')
          /\ LET c == Get(stateFile')
                 sm == Returned(p)
             IN /\ c.after = StartAfterTs(config, now)
                /\ c.after = sm.lookback_start_ts
                /\ c.activity_scope = ActivityScope(config)
                /\ c.next_offset = sm.backfill_next_offset
                /\ c.completed = sm.backfill_completed
                /\ c.rate_limited = sm.rate_limited]_vars

\* A non-dry run that skipped the backfill pass as complete returns after
\* a throttled recent pass: the cursor it carried forward was written
\* without the rate_limited flag and now holds it.
C36_Witness ==
  \E p \in Procs :
    /\ pc[p] = "idle" /\ run[p].outcome = "summary" /\ ~run[p].dry_run
    /\ run[p].rate_limited
    /\ IsSome(stateFile)
    /\ Get(stateFile).completed /\ Get(stateFile).rate_limited
    /\ Get(stateFile).next_offset = None
    /\ IsSome(Get(stateFile).oldest_seen_ts)

\* ---------------------------------------------------------------- C37
\* SpecRace: two invocations of the script on the same data directory, each
\* started once and free to overlap: nothing in sync_garmin, _load_state or
\* _save_state takes a lock.  The recent window is empty.
RaceProcs == {1, 2}

InitRace == InitWith(ListingsCfg, ConfigsOf({None}, {0}, {TRUE}), RaceProcs)

NextRace ==
  \/ \E p \in Procs : StartRun(p, FALSE, FALSE)
  \/ \E p \in Procs : BackfillPage(p)
  \/ \E p \in Procs : BackfillRateLimited(p)
  \/ \E p \in Procs : Finish(p)

SpecRace == InitRace /\ [][NextRace]_vars

\* How far a cursor says the backfill got: its next_offset, or past every
\* offset when it is completed.
Progress(c) ==
  IF c.completed \/ ~IsSome(c.next_offset) THEN MaxItems + 1
  ELSE Get(c.next_offset)

\* C37.  Unguarded race: two overlapping runs are not kept apart, both can
\* load the same persisted cursor, and the run that saves last overwrites
\* the cursor of the other: what a returning non-dry run persists is the
\* cursor it computed from what it loaded, whatever was persisted since,
\* also when that is further than its own.
C37_LastSaverOverwrites ==
  [][\A p \in Procs :
       (Returns(p) /\ ~run[p].dry_run)
       => /\ stateFile' = Some(StateUpdate(run[p], now))
          /\ \A q \in Procs \ {p} :
               (pc[q] # "idle" /\ InBackfill(q)) => run'[q] = run[q]]_vars

\* Both runs have returned, and the persisted cursor is the one of the run
\* that saved last: its next_offset is lower than the offset, or behind
\* the completed flag, that the other run had persisted.
C37_Witness ==
  \E p, q \in Procs :
    /\ p # q /\ AllIdle
    /\ run[p].outcome = "summary" /\ run[q].outcome = "summary"
    /\ IsSome(run[p].saved) /\ IsSome(run[q].saved)
    /\ stateFile = run[p].saved
    /\ ~Get(stateFile).completed
    /\ Progress(Get(stateFile)) < Progress(Get(run[q].saved))

\* ---------------------------------------------------------------- C38
\* SpecPick: non-dry invocations over listings whose first item carries any
\* list of at most MaxCands duration candidates: absent, rejected by
\* float(), zero, negative, positive, or beyond the range of a float.  The
\* detail endpoint holds no duration; the recent window is empty.
Cands == {NoCand, TextCand, Num(0), Num(0 - 1), Num(5), Num(7), Huge}

CandLists == UNION { [1..n -> Cands] : n \in 0..MaxCands }

PayloadsPick(j) ==
  IF j = 1
  THEN { [activityId |-> Some(j), startTime |-> Some(3), durs |-> d,
          detail |-> 0] : d \in CandLists }
  ELSE { [activityId |-> Some(j), startTime |-> Some(3), durs |-> <<Num(5)>>,
          detail |-> 0] }

\* The listings of at most MaxItems items whose item at position j is
\* drawn from PayloadsPick(j).
ListingsPick ==
  {<<>>}
  \cup { <<x>> \o [j \in 1..n |-> CHOOSE y \in PayloadsPick(j + 1) : TRUE] :
           x \in PayloadsPick(1), n \in 0..(MaxItems - 1) }

InitPick == InitWith(ListingsPick, ConfigsOf({None}, {0}, {TRUE}), {1})

NextPick ==
  \/ \E p \in Procs : StartRun(p, FALSE, FALSE)
  \/ \E p \in Procs : BackfillPage(p)
  \/ \E p \in Procs : ItemFails(p)
  \/ \E p \in Procs : Finish(p)

SpecPick == InitPick /\ [][NextPick]_vars

\* The value the claim gives for a list of candidates: the first numeric
\* positive one, else the first numeric one, else 0.
C38_Numeric(values) == { i \in 1..Len(values) : values[i].kind = "num" }
C38_Positive(values) == { i \in C38_Numeric(values) : values[i].val > 0 }
C38_First(S) == CHOOSE i \in S : \A k \in S : i <= k
C38_Expected(values) ==
  IF C38_Positive(values) # {}
  THEN values[C38_First(C38_Positive(values))].val
  ELSE IF C38_Numeric(values) # {}
  THEN values[C38_First(C38_Numeric(values))].val
  ELSE 0

\* The listed duration of every stored record is the value the claim gives
\* for the candidates of its listing item.
C38_ReturnsAsStated ==
  \A j \in 1..Len(provider) :
    LET raw == provider[j] IN
    IsSome(rawStore[Get(raw.activityId)])
    => Get(rawStore[Get(raw.activityId)]).moving_time
         = C38_Expected(raw.durs)

\* C38.  Duration resolution: over an ordered list of candidates,
\* _pick_duration_seconds returns the first candidate that is numeric and
\* positive, else the first numeric candidate (possibly zero), else 0; it
\* never raises.
C38_PickDuration ==
  /\ C38_ReturnsAsStated
  /\ \A p \in Procs : run[p].outcome # "raised"

\* ---------------------------------------------------------------- C39
\* SpecEnrich: non-dry invocations over listings whose first item is listed
\* with a zero duration, while the client's four detail methods are
\* missing, raise (a rate-limit error or another), return no dict, or
\* return a dict whose duration is zero, positive or beyond the range of a
\* float.  The recent window is empty.
VariantResults ==
  {VMissing, VRaise, VNonDict, VDict(<<Num(0)>>), VDict(<<Num(7)>>),
   VDict(<<Huge>>)}

VariantLists ==
  { <<a, b, c, VMissing>> :
      a \in VariantResults, b \in VariantResults,
      c \in {VRaise, VDict(<<Num(9)>>)} }

PayloadsEnrich(j) ==
  IF j = 1
  THEN { [activityId |-> Some(j), startTime |-> Some(3),
          durs |-> <<Num(0)>>, detail |-> 0, variants |-> v] :
            v \in VariantLists }
  ELSE { [activityId |-> Some(j), startTime |-> Some(3), durs |-> <<Num(5)>>,
          detail |-> 0, variants |-> <<VMissing, VMissing, VMissing,
                                       VMissing>>] }

ListingsEnrich == ListingsOf(PayloadsEnrich)

InitEnrich == InitWith(ListingsEnrich, ConfigsOf({None}, {0}, {TRUE}), {1})

SpecEnrich == InitEnrich /\ [][NextPick]_vars

\* The variants the claim says are used: those that return a dict-shaped
\* payload with a positive duration (a number beyond the range of a float
\* is a positive duration of the payload).
C39_Usable(variants) ==
  { i \in 1..Len(variants) :
      /\ variants[i].kind = "dict"
      /\ \E k \in 1..Len(variants[i].durs) :
           \/ variants[i].durs[k].kind = "huge"
           \/ variants[i].durs[k].kind = "num"
              /\ variants[i].durs[k].val > 0 }

C39_Enrichable(raw) == C39_Usable(raw.variants) # {}

\* The duration the claim gives the record of a zero-duration item: that of
\* the first usable variant, else zero.
C39_Expected(raw) ==
  IF C39_Enrichable(raw)
  THEN PickDurationSeconds(
         raw.variants[CHOOSE i \in C39_Usable(raw.variants) :
                        \A k \in C39_Usable(raw.variants) : i <= k].durs)
  ELSE 0

\* The records hold the duration the claim gives, and a run that has
\* scanned the whole listing counts one enrichment per enrichable item.
C39_EnrichesAsStated ==
  /\ \A j \in 1..Len(provider) :
       LET raw == provider[j] IN
       (IsSome(rawStore[j]) /\ PickDurationSeconds(raw.durs) = 0)
       => Get(rawStore[j]).moving_time = C39_Expected(raw)
  /\ \A p \in Procs :
       (pc[p] = "finish" /\ run[p].exhausted)
       => run[p].b.enriched
            = Cardinality({ j \in 1..Len(provider) :
                              /\ PickDurationSeconds(provider[j].durs) = 0
                              /\ C39_Enrichable(provider[j]) })

\* C39.  Enrichment lookup: the detail method variants are tried in a
\* fixed order and the duration of the first that returns a dict-shaped
\* payload with a positive duration is used; a variant that is missing,
\* fails or returns no positive duration is skipped without aborting the
\* run or setting rate_limited; when all are exhausted the duration stays
\* zero; duration_enriched grows by one per successful enrichment and not
\* otherwise.
C39_EnrichmentLookup ==
  /\ C39_EnrichesAsStated
  /\ \A p \in Procs : run[p].outcome # "raised" /\ ~run[p].rate_limited

\* ---------------------------------------------------------------- C40
\* run_pipeline.py.  The configured source is garmin (sync_garmin is the
\* sync in scope); the marker holds the source of the last non-dry
\* pipeline run.
Source == "garmin"

\* _detect_persisted_source_hint, in an installation that holds no Strava
\* cursor and no Strava raw directory.
DetectPersistedSourceHint ==
  IF IsSome(stateFile) \/ rawStore # EmptyStore THEN Some("garmin") ELSE None

\* run_pipeline's decision to reset: the marker names another source, or
\* there is no marker while normalized activities exist and the persisted
\* data hint at another source or the source is not strava.
ShouldResetForSource ==
  \/ IsSome(sourceState) /\ Get(sourceState) # Source
  \/ /\ sourceState = None
     /\ normalized
     /\ \/ IsSome(DetectPersistedSourceHint)
           /\ Get(DetectPersistedSourceHint) # Source
        \/ Source # "strava"

\* run_pipeline up to the sync: load the configuration and the marker and,
\* on a source switch, _reset_for_source_switch: the outputs, the marker,
\* the cursors, the fingerprints and the raw directories are removed.
\* dry_run is not looked at.
PipelineStart(skip_sync, dry_run) ==
  /\ pipeline.pos = "idle"
  /\ AllIdle
  /\ nruns < MaxRuns
  /\ IF ShouldResetForSource
     THEN /\ derived' = FALSE
          /\ normalized' = FALSE
          /\ sourceState' = None
          /\ stateFile' = None
          /\ athleteFile' = None
          /\ rawStore' = EmptyStore
     ELSE UNCHANGED <<derived, normalized, sourceState, stateFile,
                      athleteFile, rawStore>>
  /\ pipeline' = [pos |-> IF skip_sync THEN "post" ELSE "sync",
                  dry_run |-> dry_run, started |-> nruns]
  /\ UNCHANGED <<provider, config, now, pc, run, nruns, detailUp, hist>>

\* _sync_for_source: run_pipeline calls sync_garmin with its dry_run.
PipelineSync(p) ==
  /\ pipeline.pos = "sync"
  /\ nruns = pipeline.started
  /\ StartRun(p, pipeline.dry_run, FALSE)

\* sync_garmin.py run on its own, outside the pipeline.
SyncAlone(p, dry_run) ==
  /\ pipeline.pos = "idle"
  /\ StartRun(p, dry_run, FALSE)

\* The rest of run_pipeline, after the sync returned or was skipped: the
\* normalized activities and the aggregates are written, and the marker
\* is persisted when the run is not dry.
PipelineFinish ==
  /\ AllIdle
  /\ \/ pipeline.pos = "post"
     \/ /\ pipeline.pos = "sync"
        /\ nruns > pipeline.started
        /\ \A p \in Procs : run[p].outcome = "summary"
  /\ normalized' = TRUE
  /\ derived' = TRUE
  /\ sourceState' = IF pipeline.dry_run THEN sourceState ELSE Some(Source)
  /\ pipeline' = NoPipeline
  /\ UNCHANGED <<provider, config, now, rawStore, stateFile, athleteFile,
                 pc, run, nruns, detailUp, hist>>

\* The sync raised: the exception leaves run_pipeline.
PipelineAborts ==
  /\ AllIdle
  /\ pipeline.pos = "sync"
  /\ nruns > pipeline.started
  /\ \E p \in Procs : run[p].outcome = "raised"
  /\ pipeline' = NoPipeline
  /\ UNCHANGED <<provider, config, now, rawStore, stateFile, athleteFile,
                 derived, pc, run, nruns, detailUp, hist, sourceState,
                 normalized>>

\* SpecPipe: run_pipeline and sync_garmin.py invoked one after another for
\* the source garmin, in a fresh installation or in one whose last
\* pipeline run was for the source strava (marker and outputs persisted).
InitPipe ==
  /\ provider \in ListingsCfg
  /\ config \in ConfigsOf({None}, {0}, {TRUE})
  /\ now = CHOOSE c \in Clock : \A d \in Clock : c <= d
  /\ rawStore = EmptyStore
  /\ stateFile = None
  /\ athleteFile = None
  /\ sourceState \in {None, Some("strava")}
  /\ normalized = IsSome(sourceState)
  /\ derived = IsSome(sourceState)
  /\ pc = [p \in {1} |-> "idle"]
  /\ run = [p \in {1} |-> BlankRun]
  /\ nruns = 0
  /\ detailUp = TRUE
  /\ hist = [changed |-> FALSE, processed |-> {}, killed |-> FALSE]
  /\ pipeline = NoPipeline

NextPipe ==
  \/ \E sk \in BOOLEAN, d \in BOOLEAN : PipelineStart(sk, d)
  \/ \E p \in Procs : PipelineSync(p)
  \/ \E p \in Procs, d \in BOOLEAN : SyncAlone(p, d)
  \/ \E p \in Procs : BackfillPage(p)
  \/ \E p \in Procs : BackfillRateLimited(p)
  \/ \E p \in Procs : ListingFails(p)
  \/ \E p \in Procs : Finish(p)
  \/ PipelineFinish
  \/ PipelineAborts

SpecPipe == InitPipe /\ [][NextPipe]_vars

\* A step of a dry run of the pipeline: the step that starts it or a later
\* step of it.
DryPipelineStep ==
  \/ pipeline.pos = "idle" /\ pipeline'.pos # "idle" /\ pipeline'.dry_run
  \/ pipeline.pos # "idle" /\ pipeline.dry_run

\* C40.  The pipeline's dry run is non-destructive: run_pipeline with
\* dry_run = true deletes no persisted raw record, no backfill cursor file
\* and no account fingerprint file, also when the configured source
\* differs from the persisted source marker, and it does not update the
\* source marker.
C40_PipelineDryRunFrame ==
  [][DryPipelineStep
     => /\ \A i \in StoreIds : IsSome(rawStore[i]) => IsSome(rawStore'[i])
        /\ IsSome(stateFile) => IsSome(stateFile')
        /\ IsSome(athleteFile) => IsSome(athleteFile')
        /\ sourceState' = sourceState]_vars

\* The same frame for the dry runs of the pipeline that find the marker of
\* the configured source.
C40_DryRunFrameSameSource ==
  [][(DryPipelineStep /\ sourceState = Some(Source))
     => /\ rawStore' = rawStore
        /\ stateFile' = stateFile
        /\ athleteFile' = athleteFile
        /\ sourceState' = sourceState]_vars

====
